---- MODULE Spec2Model ----
(***************************************************************************)
(* Rule-based phishing detector (xile1310/pythonproj-2025).                *)
(*                                                                         *)
(* A Python str is modelled as a sequence of one-character strings, so     *)
(* that lower(), strip(), split(), substring tests and the regular         *)
(* expressions of the source are computed character by character.          *)
(***************************************************************************)
EXTENDS Integers, Sequences, FiniteSets, TLC

VARIABLES
    LEGIT_DOMAINS,   \* rules.py: set of legit domains (module global)
    SUS_KEYWORDS,    \* rules.py: set of suspicious keywords (module global)
    file,            \* config.json next to rules.py
    op,              \* the function called last
    sender,          \* its sender argument
    subject,         \* its subject argument
    body,            \* its body argument
    ret,             \* what it returned
    CONFIG           \* newrules.py: the CONFIG dict imported from config

vars == <<LEGIT_DOMAINS, SUS_KEYWORDS, file, op, sender, subject, body, ret, CONFIG>>

----------------------------------------------------------------------------
(* Characters and the str methods the source uses *)

UpperLetters == <<"A","B","C","D","E","F","G","H","I","J","K","L","M",
                  "N","O","P","Q","R","S","T","U","V","W","X","Y","Z">>
LowerLetters == <<"a","b","c","d","e","f","g","h","i","j","k","l","m",
                  "n","o","p","q","r","s","t","u","v","w","x","y","z">>
Digits == {"0","1","2","3","4","5","6","7","8","9"}
Letters == {UpperLetters[i] : i \in 1..26} \cup {LowerLetters[i] : i \in 1..26}
Whitespace == {" ", "\n", "\t"}

IsUpper(c) == \E i \in 1..26 : UpperLetters[i] = c
IsLower(c) == \E i \in 1..26 : LowerLetters[i] = c

LowerChar(c) == IF IsUpper(c) THEN LowerLetters[CHOOSE i \in 1..26 : UpperLetters[i] = c] ELSE c
UpperChar(c) == IF IsLower(c) THEN UpperLetters[CHOOSE i \in 1..26 : LowerLetters[i] = c] ELSE c

\* str.lower() and str.upper()
Lower(s) == [i \in 1..Len(s) |-> LowerChar(s[i])]
Upper(s) == [i \in 1..Len(s) |-> UpperChar(s[i])]

\* s[:n]
Prefix(s, n) == SubSeq(s, 1, IF n < Len(s) THEN n ELSE Len(s))
\* s[n:]  (0-based n)
Suffix(s, n) == SubSeq(s, n + 1, Len(s))

\* str.strip()
RECURSIVE LStrip(_)
LStrip(s) == IF s # <<>> /\ Head(s) \in Whitespace THEN LStrip(Tail(s)) ELSE s
RECURSIVE RStrip(_)
RStrip(s) == IF s # <<>> /\ s[Len(s)] \in Whitespace THEN RStrip(SubSeq(s, 1, Len(s) - 1)) ELSE s
Strip(s) == RStrip(LStrip(s))

\* Python `k in t` for two strings
Contains(t, k) == \E i \in 0..(Len(t) - Len(k)) : SubSeq(t, i + 1, i + Len(k)) = k

\* text.startswith(k, i-1): k occurs in t at (1-based) position i
OccursAt(t, k, i) == i >= 1 /\ i + Len(k) - 1 <= Len(t) /\ SubSeq(t, i, i + Len(k) - 1) = k

\* str.find(k) as a 1-based position, 0 when absent
Find(t, k) == IF Contains(t, k)
              THEN CHOOSE i \in 1..(Len(t) + 1) : OccursAt(t, k, i) /\ \A j \in 1..(i - 1) : ~OccursAt(t, k, j)
              ELSE 0

\* s.split(sep): the list of pieces between occurrences of the (non-empty) separator
RECURSIVE Split(_, _)
Split(s, sep) == LET p == Find(s, sep)
                 IN IF p = 0 THEN <<s>>
                    ELSE <<SubSeq(s, 1, p - 1)>> \o Split(Suffix(s, p - 1 + Len(sep)), sep)

\* s.split(sep, 1): at most one cut, at the first occurrence
Split1(s, sep) == LET p == Find(s, sep)
                  IN IF p = 0 THEN <<s>>
                     ELSE <<SubSeq(s, 1, p - 1), Suffix(s, p - 1 + Len(sep))>>

Last(q) == q[Len(q)]

\* s.endswith(t)
EndsWith(s, t) == Len(t) <= Len(s) /\ SubSeq(s, Len(s) - Len(t) + 1, Len(s)) = t

Min2(x, y) == IF x <= y THEN x ELSE y
Min3(x, y, z) == Min2(x, Min2(y, z))

----------------------------------------------------------------------------
(* phish-detector-version2/rules.py: helpers *)

\* One row of the dp matrix: dp[i][0] = i, then dp[i][j] from the row above and
\* the entries to the left.
\* Mutant: a substitution always costs 1
RECURSIVE LevRow_AlwaysCost(_, _, _, _, _)
LevRow_AlwaysCost(a, b, i, prevRow, cur) ==
    LET j == Len(cur)
    IN IF j > Len(b) THEN cur
       ELSE LET v == Min3(prevRow[j + 1] + 1, cur[j] + 1, prevRow[j] + 1)
            IN LevRow_AlwaysCost(a, b, i, prevRow, Append(cur, v))

RECURSIVE LevRow(_, _, _, _, _)
LevRow(a, b, i, prevRow, cur) ==
    LET j == Len(cur)    \* cur holds dp[i][0..j-1]
    IN IF j > Len(b) THEN cur
       ELSE LET cost == IF a[i] = b[j] THEN 0 ELSE 1
                v == Min3(prevRow[j + 1] + 1, cur[j] + 1, prevRow[j] + cost)
            IN LevRow(a, b, i, prevRow, Append(cur, v))

\* The dp matrix as the sequence of its rows 0..len(a); row r is dp[r-1].
RECURSIVE LevMatrix(_, _, _)
LevMatrix(a, b, rows) ==
    LET i == Len(rows)   \* rows holds dp[0..i-1]
    IN IF i > Len(a) THEN rows
       ELSE LevMatrix(a, b, Append(rows, LevRow(a, b, i, rows[i], <<i>>)))

levenshtein_distance(a, b) ==
    LET row0 == [j \in 1..(Len(b) + 1) |-> j - 1]
        dp == LevMatrix(a, b, <<row0>>)
    IN dp[Len(a) + 1][Len(b) + 1]

SchemeHttp == <<"h","t","t","p",":","/","/">>
SchemeHttps == <<"h","t","t","p","s",":","/","/">>

\* Length of the http:// or https:// prefix of the regex at position i, 0 if none
SchemeLenAt(text, i) == IF OccursAt(text, SchemeHttp, i) THEN Len(SchemeHttp)
                        ELSE IF OccursAt(text, SchemeHttps, i) THEN Len(SchemeHttps)
                        ELSE 0

\* First position >= i holding whitespace, Len(text)+1 if none
RECURSIVE NextSpace(_, _)
NextSpace(text, i) == IF i > Len(text) \/ text[i] \in Whitespace THEN i ELSE NextSpace(text, i + 1)

\* re.findall(r"http[s]?://\S+", text): leftmost, non-overlapping matches
RECURSIVE FindUrlsFrom(_, _)
FindUrlsFrom(text, i) ==
    IF i > Len(text) THEN <<>>
    ELSE LET n == SchemeLenAt(text, i)
         IN IF n > 0 /\ i + n <= Len(text) /\ text[i + n] \notin Whitespace
            THEN LET e == NextSpace(text, i + n)
                 IN <<SubSeq(text, i, e - 1)>> \o FindUrlsFrom(text, e)
            ELSE FindUrlsFrom(text, i + 1)

extract_urls(text) == FindUrlsFrom(text, 1)

\* First position >= i holding one of the characters of S, Len(s)+1 if none
RECURSIVE NextOf(_, _, _)
NextOf(s, S, i) == IF i > Len(s) \/ s[i] \in S THEN i ELSE NextOf(s, S, i + 1)

\* urlparse(url).netloc for a url that begins with a scheme and "//": the text
\* after "//" up to the first "/", "?" or "#"
Netloc(url) ==
    LET n == SchemeLenAt(url, 1)
    IN IF n = 0 THEN <<>>
       ELSE SubSeq(url, n + 1, NextOf(url, {"/", "?", "#"}, n + 1) - 1)

url_domain(url) ==
    LET netloc == Netloc(url)
        noCred == IF Contains(netloc, <<"@">>) THEN Last(Split1(netloc, <<"@">>)) ELSE netloc
        noPort == IF Contains(noCred, <<":">>) THEN Split1(noCred, <<":">>)[1] ELSE noCred
    IN Lower(noPort)

\* re.fullmatch(r"\d+\.\d+\.\d+\.\d+", host)
is_ip_literal(host) ==
    LET parts == Split(host, <<".">>)
    IN /\ Len(parts) = 4
       /\ \A p \in 1..4 : parts[p] # <<>> /\ \A i \in 1..Len(parts[p]) : parts[p][i] \in Digits

domain_matches(host, root) ==
    LET h == Lower(host)
        r == Lower(root)
    IN h = r \/ EndsWith(h, <<".">> \o r)

----------------------------------------------------------------------------
(* phish-detector-version2/rules.py: the four scored rules and the classifier *)

\* Mutant: the domain is compared without .lower()
SenderDomain_NoLower(sender_email) ==
    IF Contains(sender_email, <<"@">>) THEN Last(Split(sender_email, <<"@">>)) ELSE <<>>

\* sender_email.split("@")[-1].lower() if "@" in sender_email else ""
SenderDomain(sender_email) ==
    IF Contains(sender_email, <<"@">>) THEN Lower(Last(Split(sender_email, <<"@">>))) ELSE <<>>

whitelist_check(sender_email) ==
    LET domain == SenderDomain(sender_email)
    IN IF domain \in LEGIT_DOMAINS THEN 0 ELSE 2

EarlyChars == 200

\* Mutant: the +2 bonus looks at the whole body instead of its first characters
KeywordScore_NoWindow(kw, s, b, early) ==
    (IF Contains(s, kw) THEN 3 ELSE 0)
    + (IF Contains(b, kw) THEN 1 ELSE 0)
    + (IF Contains(b, kw) THEN 2 ELSE 0)

\* The body of the loop `for kw in SUS_KEYWORDS`
KeywordScore(kw, s, b, early) ==
    (IF Contains(s, kw) THEN 3 ELSE 0)
    + (IF Contains(b, kw) THEN 1 ELSE 0)
    + (IF Contains(early, kw) THEN 2 ELSE 0)

RECURSIVE KeywordLoop(_, _, _, _)
KeywordLoop(kws, s, b, early) ==
    IF kws = {} THEN 0
    ELSE LET kw == CHOOSE k \in kws : TRUE
         IN KeywordScore(kw, s, b, early) + KeywordLoop(kws \ {kw}, s, b, early)

keyword_check(subj, bod) ==
    LET s == Lower(subj)
        b == Lower(bod)
        early == Prefix(b, EarlyChars)
    IN KeywordLoop(SUS_KEYWORDS, s, b, early)

edit_distance_check(sender_email) ==
    LET domain == SenderDomain(sender_email)
    IN IF domain = <<>> THEN 0
       ELSE IF \E legit \in LEGIT_DOMAINS :
                   domain # legit /\ levenshtein_distance(domain, legit) <= 2
            THEN 5
            ELSE 0

\* The text before the first "/" of what follows "://": where the source
\* looks for "@"
BeforeFirstSlash(url) == Split1(Last(Split1(url, <<":","/","/">>)), <<"/">>)[1]

\* The score one URL adds
UrlScore(url, claimed) ==
    LET host == url_domain(url)
    IN (IF is_ip_literal(host) THEN 5 ELSE 0)
       + (IF Contains(BeforeFirstSlash(url), <<"@">>) THEN 3 ELSE 0)
       + (IF \E d \in claimed : ~domain_matches(host, d) THEN 4 ELSE 0)

RECURSIVE UrlLoop(_, _)
UrlLoop(urls, claimed) ==
    IF urls = <<>> THEN 0 ELSE UrlScore(Head(urls), claimed) + UrlLoop(Tail(urls), claimed)

suspicious_url_check(subj, bod) ==
    LET urls == extract_urls(bod)
        text == Lower(subj \o <<"\n">> \o bod)
        claimed == {d \in LEGIT_DOMAINS : Contains(text, d)}
    IN IF urls = <<>> THEN 0 ELSE UrlLoop(urls, claimed)

PhishThreshold == 10

\* label = "Phishing" if score > 10 else "Safe"
Label(score) == IF score > PhishThreshold THEN "Phishing" ELSE "Safe"

classify_email(sndr, subj, bod) ==
    LET w == whitelist_check(sndr)
        k == keyword_check(subj, bod)
        e == edit_distance_check(sndr)
        u == suspicious_url_check(subj, bod)
        score == w + k + e + u
    IN [label |-> Label(score), score |-> score, w |-> w, k |-> k, e |-> e, u |-> u]

----------------------------------------------------------------------------
(* phish-detector-version2/rules.py: configuration *)

\* Code-point order of the characters used, for sorted()
CharOrder == <<"\t", "\n", " ", "#", "%", "+", "-", ".", "/",
               "0","1","2","3","4","5","6","7","8","9", ":", "?", "@",
               "A","B","C","D","E","F","G","H","I","J","K","L","M",
               "N","O","P","Q","R","S","T","U","V","W","X","Y","Z", "_",
               "a","b","c","d","e","f","g","h","i","j","k","l","m",
               "n","o","p","q","r","s","t","u","v","w","x","y","z">>
Ord(c) == CHOOSE i \in 1..Len(CharOrder) : CharOrder[i] = c

\* Python's a < b on two strings
RECURSIVE StrLess(_, _)
StrLess(a, b) ==
    IF b = <<>> THEN FALSE
    ELSE IF a = <<>> THEN TRUE
    ELSE IF Head(a) = Head(b) THEN StrLess(Tail(a), Tail(b))
    ELSE Ord(Head(a)) < Ord(Head(b))

\* sorted(S) for a set of strings
RECURSIVE Sorted(_)
Sorted(S) ==
    IF S = {} THEN <<>>
    ELSE LET m == CHOOSE x \in S : \A y \in S \ {x} : StrLess(x, y)
         IN <<m>> \o Sorted(S \ {m})

Elems(q) == {q[i] : i \in 1..Len(q)}

D_sg == <<"s","i","n","g","a","p","o","r","e",".","t","e","c","h",".","e","d","u",".","s","g">>
D_paypal == <<"p","a","y","p","a","l",".","c","o","m">>
D_google == <<"g","o","o","g","l","e",".","c","o","m">>
D_paypa1 == <<"p","a","y","p","a","1",".","c","o","m">>
D_evil == <<"e","v","i","l",".","o","r","g">>
K_urgent == <<"u","r","g","e","n","t">>
K_verify == <<"v","e","r","i","f","y">>
K_account == <<"a","c","c","o","u","n","t">>
K_password == <<"p","a","s","s","w","o","r","d">>
K_click == <<"c","l","i","c","k">>
K_free == <<"f","r","e","e">>

DEFAULT_CONFIGURATION ==
    [legit_domains |-> <<D_sg, D_paypal, D_google>>,
     keywords |-> <<K_urgent, K_verify, K_account, K_password, K_click>>]

\* A JSON object is a function from its keys to its values; dict.get(key, [])
Get(cfg, key) == IF key \in DOMAIN cfg THEN cfg[key] ELSE <<>>

\* cfg[key] = value
Put(cfg, key, value) == [k \in (DOMAIN cfg) \cup {key} |-> IF k = key THEN value ELSE cfg[k]]

\* cfg.pop(key, None)
Pop(cfg, key) == [k \in (DOMAIN cfg) \ {key} |-> cfg[k]]

\* The config file: absent, unreadable as JSON, or holding a JSON object
NoFile == [kind |-> "absent", cfg |-> [keywords |-> <<>>]]
CorruptFile == [kind |-> "corrupt", cfg |-> [keywords |-> <<>>]]

\* persist(path, cfg): what the file holds afterwards
persist(cfg) == [kind |-> "json", cfg |-> cfg]

\* Mutant: blank entries are kept (no `if d.strip()`)
Normalized_KeepBlank(items) == {Lower(Strip(d)) : d \in Elems(items)}

\* Mutant: entries keep their case (no `.lower()`)
Normalized_NoLower(items) == {Strip(d) : d \in {x \in Elems(items) : Strip(x) # <<>>}}

\* {d.strip().lower() for d in items if d.strip()}
Normalized(items) == {Lower(Strip(d)) : d \in {x \in Elems(items) : Strip(x) # <<>>}}

\* apply_cfg(cfg): the new contents of the two sets
apply_cfg(cfg) ==
    [legit |-> Normalized(Get(cfg, "legit_domains")),
     keywords |-> Normalized(Get(cfg, "keywords"))]

\* load_config_to_rules(): the cfg it ends with and what the file holds afterwards
load_config_to_rules(f) ==
    LET cfg0 == IF f.kind = "json" THEN f.cfg ELSE DEFAULT_CONFIGURATION
        f0 == IF f.kind = "absent" THEN persist(cfg0) ELSE f
        migrate == "legit_domains" \notin DOMAIN cfg0
        wl == Get(cfg0, "whitelist")
        br == Get(cfg0, "brands")
        cfg1 == IF migrate
                THEN Pop(Pop(Put(cfg0, "legit_domains", Sorted(Elems(wl) \cup Elems(br))),
                             "whitelist"), "brands")
                ELSE cfg0
        f1 == IF migrate THEN persist(cfg1) ELSE f0
        cfg2 == IF "keywords" \in DOMAIN cfg1 THEN cfg1 ELSE Put(cfg1, "keywords", <<>>)
    IN [sets |-> apply_cfg(cfg2), file |-> f1]

\* save_rules_to_config(): what the file holds afterwards
save_rules_to_config(legit, keywords) ==
    persist([legit_domains |-> Sorted(legit), keywords |-> Sorted(keywords)])

\* reset_to_defaults() without its persist(): the file keeps what it held
reset_to_defaults_NoPersist ==
    [sets |-> apply_cfg(DEFAULT_CONFIGURATION), file |-> file]

\* reset_to_defaults(): the sets and the file afterwards
reset_to_defaults ==
    [sets |-> apply_cfg(DEFAULT_CONFIGURATION), file |-> persist(DEFAULT_CONFIGURATION)]

----------------------------------------------------------------------------
(* Inputs *)

\* Largest number of words in a generated email body
MaxWords == 2

\* What config.json may hold when the module is imported
OldSchemaFile == persist([whitelist |-> <<D_paypal>>, brands |-> <<D_google, D_paypal>>,
                          keywords |-> <<K_urgent, K_click>>])
MessyFile == persist([legit_domains |-> <<<<" ","P","a","y","P","a","l",".","c","o","m"," ">>, <<>>, <<" ", " ">>>>,
                      keywords |-> <<<<"U","R","G","E","N","T"," ">>, <<>>, K_verify>>])
InitialFiles == {NoFile, CorruptFile, persist(DEFAULT_CONFIGURATION), OldSchemaFile, MessyFile}

\* What the user types into "Add domain" and "Add keyword"
NewDomInputs == {<<" ","P","a","y","P","a","1",".","c","o","m">>, <<>>, <<" ">>}
NewKwInputs == {<<" ","F","r","e","e"," ">>, <<>>}
\* What the user may select for removal
RemovableDomains == {D_google, D_paypa1}
RemovableKeywords == {K_urgent, K_free}

\* Texts of at most n words of W, joined by single spaces
RECURSIVE Texts(_, _)
Texts(W, n) == IF n = 0 THEN {<<>>}
               ELSE LET shorter == Texts(W, n - 1)
                    IN shorter \cup W \cup {t \o <<" ">> \o w : t \in shorter \ {<<>>}, w \in W}

ClassifySenders == {<<>>, <<"u","s","e","r">>, <<"u","@">>, <<"u","@","p","a","y","p","a","l",".","c","o","m">>, <<"U","@","P","a","y","P","a","l",".","C","O","M">>, <<"u","@","p","a","y","p","a","1",".","c","o","m">>, <<"u","@","e","v","i","l",".","o","r","g">>}
ClassifySubjects == {<<>>, <<"U","r","g","e","n","t">>, <<"U","r","g","e","n","t",":"," ","V","e","r","i","f","y"," ","a","c","c","o","u","n","t">>}
ClassifyWords == {K_click, K_password, <<"h","t","t","p",":","/","/","1",".","2",".","3",".","4">>, <<"h","t","t","p",":","/","/","a","@","b","@","1",".","2",".","3",".","4">>}
ClassifyBodies == Texts(ClassifyWords, MaxWords)

----------------------------------------------------------------------------
(* phish-detector-version2/rules.py as a state machine *)

NoCall == [label |-> "none", score |-> 0, w |-> 0, k |-> 0, e |-> 0, u |-> 0]

\* A settings operation forgets the last call
Forget == /\ op' = "none"
          /\ sender' = <<>>
          /\ subject' = <<>>
          /\ body' = <<>>
          /\ ret' = NoCall

\* Module import: load_config_to_rules() against whatever config.json holds
Init == \E f \in InitialFiles :
          LET r == load_config_to_rules(f)
          IN /\ LEGIT_DOMAINS = r.sets.legit
             /\ SUS_KEYWORDS = r.sets.keywords
             /\ file = r.file
             /\ op = "none"
             /\ sender = <<>>
             /\ subject = <<>>
             /\ body = <<>>
             /\ ret = NoCall
             /\ CONFIG = <<>>

\* App start: load_config_to_rules()
LoadConfig ==
    LET r == load_config_to_rules(file)
    IN /\ LEGIT_DOMAINS' = r.sets.legit
       /\ SUS_KEYWORDS' = r.sets.keywords
       /\ file' = r.file
       /\ Forget
       /\ UNCHANGED CONFIG

\* Settings: "Add domain"
AddDomain ==
    \E new_dom \in NewDomInputs :
       /\ IF Strip(new_dom) # <<>>
          THEN /\ LEGIT_DOMAINS' = LEGIT_DOMAINS \cup {Lower(Strip(new_dom))}
               /\ file' = save_rules_to_config(LEGIT_DOMAINS', SUS_KEYWORDS)
          ELSE UNCHANGED <<LEGIT_DOMAINS, file>>
       /\ Forget
       /\ UNCHANGED <<SUS_KEYWORDS, CONFIG>>

\* Settings: "Remove domain(s)"
RemoveDomains ==
    /\ LEGIT_DOMAINS # {}
    /\ \E to_remove \in SUBSET (LEGIT_DOMAINS \cap RemovableDomains) :
          /\ LEGIT_DOMAINS' = LEGIT_DOMAINS \ to_remove
          /\ file' = save_rules_to_config(LEGIT_DOMAINS', SUS_KEYWORDS)
    /\ Forget
    /\ UNCHANGED <<SUS_KEYWORDS, CONFIG>>

\* Settings: "Add keyword"
AddKeyword ==
    \E new_kw \in NewKwInputs :
       /\ IF Strip(new_kw) # <<>>
          THEN /\ SUS_KEYWORDS' = SUS_KEYWORDS \cup {Lower(Strip(new_kw))}
               /\ file' = save_rules_to_config(LEGIT_DOMAINS, SUS_KEYWORDS')
          ELSE UNCHANGED <<SUS_KEYWORDS, file>>
       /\ Forget
       /\ UNCHANGED <<LEGIT_DOMAINS, CONFIG>>

\* Settings: "Remove keyword(s)"
RemoveKeywords ==
    /\ SUS_KEYWORDS # {}
    /\ \E to_remove_k \in SUBSET (SUS_KEYWORDS \cap RemovableKeywords) :
          /\ SUS_KEYWORDS' = SUS_KEYWORDS \ to_remove_k
          /\ file' = save_rules_to_config(LEGIT_DOMAINS, SUS_KEYWORDS')
    /\ Forget
    /\ UNCHANGED <<LEGIT_DOMAINS, CONFIG>>

\* Settings: "Reset to defaults"
ResetToDefaults ==
    /\ LEGIT_DOMAINS' = reset_to_defaults.sets.legit
    /\ SUS_KEYWORDS' = reset_to_defaults.sets.keywords
    /\ file' = reset_to_defaults.file
    /\ Forget
    /\ UNCHANGED CONFIG

\* "Analyze": classify_email(sender, subject, body). The page shows one result
\* at a time: every call starts from the page as the last rerun left it.
Classify ==
    /\ op = "none"
    /\ \E sndr \in ClassifySenders, subj \in ClassifySubjects, bod \in ClassifyBodies :
       /\ op' = "classify_email"
       /\ sender' = sndr
       /\ subject' = subj
       /\ body' = bod
       /\ ret' = classify_email(sndr, subj, bod)
    /\ UNCHANGED <<LEGIT_DOMAINS, SUS_KEYWORDS, file, CONFIG>>

Next == \/ LoadConfig
        \/ AddDomain
        \/ RemoveDomains
        \/ AddKeyword
        \/ RemoveKeywords
        \/ ResetToDefaults
        \/ Classify

Spec == Init /\ [][Next]_vars

----------------------------------------------------------------------------
(* The four rules of rules.py called one at a time, as test_rules.py does,   *)
(* on generated inputs and under rule sets the settings can produce          *)

KeywordsOnlyFile == persist([legit_domains |-> <<D_paypal, D_google>>])
DetectFiles == {NoFile, MessyFile, KeywordsOnlyFile}
DetectAdded == {{}, {D_paypa1}, {D_paypa1, D_evil}}

\* n filler characters
Pad(n) == [i \in 1..n |-> "x"]

DetectDomains == {<<>>, D_paypal, <<"P","a","y","P","a","l",".","C","O","M">>, D_paypa1, D_google, D_evil, D_sg,
                  <<"m","a","i","l",".","p","a","y","p","a","l",".","c","o","m">>, <<"p","a","y","p","a","l",".","c","o","m"," ">>, <<"x","p","a","y","p","a","l",".","c","o","m">>}
DetectLocals == {<<>>, <<"u">>, <<"a","@","b">>, <<"U">>}
DetectSenders == {<<>>, <<"u","s","e","r">>, D_paypal}
                 \cup {l \o <<"@">> \o d : l \in DetectLocals, d \in DetectDomains}

KeywordSubjects == {<<>>, <<"U","r","g","e","n","t">>, <<"u","r","g","e","n","t"," ","u","r","g","e","n","t">>, <<"H","i">>, <<"V","e","r","i","f","i","c","a","t","i","o","n"," ","n","e","e","d","e","d">>}
KeywordWords == {K_urgent, <<"V","e","r","i","f","y">>, <<"h","i">>}
\* Fillers that put a keyword inside, across and after the first EarlyChars characters
PadLengths == {0, EarlyChars - Len(K_urgent), EarlyChars - Len(K_urgent) + 1, EarlyChars}
KeywordBodies == {Pad(n) \o t : n \in PadLengths, t \in Texts(KeywordWords, MaxWords)}

UrlSubjects == {<<>>, <<"p","a","y","p","a","l",".","c","o","m"," ","a","l","e","r","t">>, <<"H","i">>}
UrlWords == {<<"h","t","t","p",":","/","/","1",".","2",".","3",".","4">>, <<"h","t","t","p",":","/","/","1",".","2",".","3",".","4","?","a","@","b">>, <<"h","t","t","p",":","/","/","u","@","e","v","i","l",".","o","r","g">>, <<"h","t","t","p","s",":","/","/","w","w","w",".","p","a","y","p","a","l",".","c","o","m","/","l","o","g","i","n">>, <<"h","t","t","p",":","/","/","g","o","o","g","l","e",".","c","o","m">>, <<"h","t","t","p",":","/","/","e","v","i","l",".","o","r","g">>, <<"v","i","s","i","t">>}
UrlBodies == Texts(UrlWords, MaxWords)

IntResult(v) == [NoCall EXCEPT !.score = v]

InitDetect ==
    \E f \in DetectFiles, added \in DetectAdded :
       LET r == load_config_to_rules(f)
       IN /\ LEGIT_DOMAINS = r.sets.legit \cup added
          /\ SUS_KEYWORDS = r.sets.keywords
          /\ file = save_rules_to_config(LEGIT_DOMAINS, SUS_KEYWORDS)
          /\ op = "none"
          /\ sender = <<>>
          /\ subject = <<>>
          /\ body = <<>>
          /\ ret = NoCall
          /\ CONFIG = <<>>

WhitelistCall ==
    /\ op = "none"
    /\ \E sndr \in DetectSenders :
          /\ op' = "whitelist_check"
          /\ sender' = sndr
          /\ ret' = IntResult(whitelist_check(sndr))
    /\ UNCHANGED <<LEGIT_DOMAINS, SUS_KEYWORDS, file, subject, body, CONFIG>>

EditDistanceCall ==
    /\ op = "none"
    /\ \E sndr \in DetectSenders :
          /\ op' = "edit_distance_check"
          /\ sender' = sndr
          /\ ret' = IntResult(edit_distance_check(sndr))
    /\ UNCHANGED <<LEGIT_DOMAINS, SUS_KEYWORDS, file, subject, body, CONFIG>>

KeywordCall ==
    /\ op = "none"
    /\ \E subj \in KeywordSubjects, bod \in KeywordBodies :
          /\ op' = "keyword_check"
          /\ subject' = subj
          /\ body' = bod
          /\ ret' = IntResult(keyword_check(subj, bod))
    /\ UNCHANGED <<LEGIT_DOMAINS, SUS_KEYWORDS, file, sender, CONFIG>>

UrlCall ==
    /\ op = "none"
    /\ \E subj \in UrlSubjects, bod \in UrlBodies :
          /\ op' = "suspicious_url_check"
          /\ subject' = subj
          /\ body' = bod
          /\ ret' = IntResult(suspicious_url_check(subj, bod))
    /\ UNCHANGED <<LEGIT_DOMAINS, SUS_KEYWORDS, file, sender, CONFIG>>

NextDetect == \/ WhitelistCall
              \/ EditDistanceCall
              \/ KeywordCall
              \/ UrlCall

SpecDetect == InitDetect /\ [][NextDetect]_vars

----------------------------------------------------------------------------
(* phish-detector-version2/newrules.py and the helpers it takes from config.py. *)
(* Scores and weights are counted in tenths (0.8 is 8, -999.0 is -9990).        *)

\* Python values that can reach the classifier or sit in CONFIG
PyNone == [t |-> "none", v |-> <<>>]
PyStr(s) == [t |-> "str", v |-> s]
PyBytes(b) == [t |-> "bytes", v |-> b]
PyInt(digits) == [t |-> "int", v |-> digits]
PyBadObj == [t |-> "badobj", v |-> <<>>]        \* an object whose __str__ raises
PyList(items) == [t |-> "list", v |-> items]
PyDict(d) == [t |-> "dict", v |-> d]
PyNum(tenths) == [t |-> "num", v |-> <<tenths>>]

\* A byte that is not valid UTF-8 and the character errors="replace" puts for it
BadByte == "0xFF"
ReplacementChar == "U+FFFD"

\* config._safe_str(x)
safe_str(x) ==
    CASE x.t = "none" -> <<>>
      [] x.t = "bytes" -> [i \in 1..Len(x.v) |-> IF x.v[i] = BadByte THEN ReplacementChar ELSE x.v[i]]
      [] x.t = "badobj" -> <<>>
      [] OTHER -> x.v

\* The outcome of a step that may raise
Raise == [exc |-> TRUE, val |-> 0]
Ok(x) == [exc |-> FALSE, val |-> x]

EmptyDict == PyDict([k \in {} |-> PyNone])

\* c.get(key, default) on a dict
DictGet(c, key, default) == IF key \in DOMAIN c.v THEN c.v[key] ELSE default

\* T = CONFIG.get("thresholds", {}) if isinstance(CONFIG, dict) else {}
Thresholds(C) == IF C.t = "dict" THEN DictGet(C, "thresholds", EmptyDict) ELSE EmptyDict

\* float(T.get(name, default)): AttributeError unless T is a dict, TypeError or
\* ValueError unless the value is a number
FloatOf(T, name, default) ==
    IF T.t # "dict" THEN Raise
    ELSE LET x == DictGet(T, name, PyNum(default))
         IN IF x.t = "num" THEN Ok(x.v[1]) ELSE Raise

\* int(T.get(name, default)): the number truncated towards zero, in units
IntOf(T, name, default) ==
    LET f == FloatOf(T, name, default * 10)
    IN IF f.exc THEN Raise
       ELSE Ok(IF f.val >= 0 THEN f.val \div 10 ELSE -((-f.val) \div 10))

\* CONFIG.get(key, []): AttributeError unless CONFIG is a dict
ConfigGet(C, key) == IF C.t # "dict" THEN Raise ELSE Ok(DictGet(C, key, PyList(<<>>)))

\* sum(1 for k in keywords if k in text_l): TypeError unless keywords is a list of str
RECURSIVE CountIn(_, _)
CountIn(items, text_l) ==
    IF items = <<>> THEN 0
    ELSE (IF Contains(text_l, Head(items).v) THEN 1 ELSE 0) + CountIn(Tail(items), text_l)

KwHits(keywords, text_l) ==
    IF keywords.t # "list" THEN Raise
    ELSE IF \E i \in 1..Len(keywords.v) : keywords.v[i].t # "str" THEN Raise
    ELSE Ok(CountIn(keywords.v, text_l))

\* any(dom.endswith(ld) for ld in items): the items are tried in order, a match
\* ends the search, an item that is no str raises TypeError
RECURSIVE AnyEndsWith(_, _)
AnyEndsWith(items, dom) ==
    IF items = <<>> THEN Ok(FALSE)
    ELSE IF Head(items).t # "str" THEN Raise
    ELSE IF EndsWith(dom, Head(items).v) THEN Ok(TRUE)
    ELSE AnyEndsWith(Tail(items), dom)

\* any(s in text for s in items), likewise
RECURSIVE AnyIn(_, _)
AnyIn(items, text) ==
    IF items = <<>> THEN Ok(FALSE)
    ELSE IF Head(items).t # "str" THEN Raise
    ELSE IF Contains(text, Head(items).v) THEN Ok(TRUE)
    ELSE AnyIn(Tail(items), text)

\* Character classes of the regular expressions (re.I: both cases)
Alnum == Letters \cup Digits
WordChars == Alnum \cup {"_"}
EmailLocalChars == Alnum \cup {".", "_", "%", "+", "-"}
EmailDomainChars == Alnum \cup {".", "-"}

\* First position >= i holding a character outside S, Len(s)+1 if none
RECURSIVE RunEnd(_, _, _)
RunEnd(s, S, i) == IF i > Len(s) \/ s[i] \notin S THEN i ELSE RunEnd(s, S, i + 1)

\* ([A-Z0-9.-]+\.[A-Z]{2,}) tried right after the "@" at position p: the class
\* takes the longest run and gives characters back until a "." followed by two
\* letters is found; the letters are then taken greedily. 0 when there is no match,
\* else the position of the last character of the group.
EmailGroupEnd(s, p) ==
    LET e == RunEnd(s, EmailDomainChars, p + 1) - 1
        dots == {q \in (p + 2)..(e - 2) : s[q] = "." /\ s[q + 1] \in Letters /\ s[q + 2] \in Letters}
    IN IF dots = {} THEN 0
       ELSE LET q == CHOOSE x \in dots : \A y \in dots : y <= x
            IN RunEnd(s, Letters, q + 1) - 1

\* EMAIL_RE.search(s): the leftmost match is at the first "@" that has a local
\* character before it and a domain group after it
EmailAts(s) == {p \in 2..Len(s) : s[p] = "@" /\ s[p - 1] \in EmailLocalChars /\ EmailGroupEnd(s, p) # 0}

\* newrules.extract_domain(sender)
extract_domain(sndr) ==
    LET s == safe_str(sndr)
        ats == EmailAts(s)
    IN IF ats = {} THEN <<>>
       ELSE LET p == CHOOSE x \in ats : \A y \in ats : x <= y
            IN Lower(SubSeq(s, p + 1, EmailGroupEnd(s, p)))

\* URL_RE.search(text_l): (https?://|www\.)
UrlSearch(text_l) ==
    \/ Contains(Lower(text_l), SchemeHttp)
    \/ Contains(Lower(text_l), SchemeHttps)
    \/ Contains(Lower(text_l), <<"w","w","w",".">>)

\* RISKY_ATTACH_RE: \.(?:exe|scr|bat|cmd|js|vbs|jar|msi|hta|html?|zip|7z|rar)\b
RiskyExtensions == {<<"e","x","e">>, <<"s","c","r">>, <<"b","a","t">>, <<"c","m","d">>, <<"j","s">>, <<"v","b","s">>, <<"j","a","r">>, <<"m","s","i">>, <<"h","t","a">>, <<"h","t","m">>, <<"h","t","m","l">>, <<"z","i","p">>, <<"7","z">>, <<"r","a","r">>}
RiskyAttachSearch(text_l) ==
    \E i \in 1..Len(text_l) :
       /\ text_l[i] = "."
       /\ \E x \in RiskyExtensions :
             /\ OccursAt(Lower(text_l), x, i + 1)
             /\ (i + Len(x) = Len(text_l) \/ text_l[i + Len(x) + 1] \notin WordChars)

\* One label and its dot, [a-zA-Z0-9](?:[a-zA-Z0-9\-]{0,61}[a-zA-Z0-9])?\. , tried
\* at position i: the position of the dot, 0 when there is no match
LabelDot(text, i) ==
    LET d == RunEnd(text, Alnum \cup {"-"}, i)
    IN IF /\ d > i /\ d <= Len(text) /\ text[d] = "."
          /\ text[i] \in Alnum /\ text[d - 1] \in Alnum
          /\ d - i <= 63
       THEN d ELSE 0

\* The dots that end the successive labels from position i on
RECURSIVE LabelDots(_, _)
LabelDots(text, i) ==
    LET d == LabelDot(text, i)
    IN IF d = 0 THEN {} ELSE {d} \cup LabelDots(text, d + 1)

\* [a-zA-Z]{2,}\b tried at position j: the position of the last letter, 0 when
\* there is no match
TldEnd(text, j) ==
    LET f == RunEnd(text, Letters, j) - 1
    IN IF f >= j + 1 /\ (f = Len(text) \/ text[f + 1] \notin WordChars) THEN f ELSE 0

\* The domain pattern tried at position i: as many labels as possible, giving
\* labels back until the letters and the word boundary match
DomainMatchEnd(text, i) ==
    LET startOk == text[i] \in Alnum /\ (i = 1 \/ text[i - 1] \notin WordChars)
        dots == {d \in LabelDots(text, i) : TldEnd(text, d + 1) # 0}
    IN IF ~startOk \/ dots = {} THEN 0
       ELSE TldEnd(text, (CHOOSE d \in dots : \A x \in dots : x <= d) + 1)

\* re.findall(domain_pattern, text_l)
RECURSIVE FindDomainsFrom(_, _)
FindDomainsFrom(text, i) ==
    IF i > Len(text) THEN <<>>
    ELSE LET e == DomainMatchEnd(text, i)
         IN IF e # 0 THEN <<SubSeq(text, i, e)>> \o FindDomainsFrom(text, e + 1)
            ELSE FindDomainsFrom(text, i + 1)

\* newrules.whitelist_check(sender, text_l): (is_whitelisted, score)
nr_whitelist_check(C, sndr, text_l) ==
    LET dom == extract_domain(sndr)
        legit == ConfigGet(C, "legit_domains")
        hit == IF dom = <<>> THEN Ok(FALSE)
               ELSE IF legit.exc \/ legit.val.t # "list" THEN Raise
               ELSE AnyEndsWith(legit.val.v, dom)
        URL_W == FloatOf(Thresholds(C), "url_weight", 8)
    IN IF hit.exc THEN Raise
       ELSE IF hit.val THEN Ok([whitelisted |-> TRUE, score |-> 0])
       ELSE IF URL_W.exc THEN Raise
       ELSE Ok([whitelisted |-> FALSE, score |-> IF UrlSearch(text_l) THEN URL_W.val ELSE 0])

\* newrules.keyword_check(text_l): score
nr_keyword_check(C, text_l) ==
    LET KW_W == FloatOf(Thresholds(C), "keyword_weight", 10)
        keywords == ConfigGet(C, "keywords")
        kw_hits == IF keywords.exc THEN Raise ELSE KwHits(keywords.val, text_l)
    IN IF KW_W.exc \/ kw_hits.exc THEN Raise
       ELSE Ok(kw_hits.val * KW_W.val)

\* Mutant: the inline dynamic program compares the characters without their case
InlineDistance_IgnoreCase(a, b) ==
    LevMatrix(Lower(a), Lower(b), <<[j \in 1..(Len(b) + 1) |-> j - 1]>>)[Len(a) + 1][Len(b) + 1]

\* The inline dynamic program of edit_distance_check
InlineDistance(a, b) ==
    LET row0 == [j \in 1..(Len(b) + 1) |-> j - 1]
        dp == LevMatrix(a, b, <<row0>>)
    IN dp[Len(a) + 1][Len(b) + 1]

\* min_distance over the legit domains; -1 stands for float('inf')
RECURSIVE MinDistance(_, _, _)
MinDistance(found, legit, best) ==
    IF legit = <<>> THEN best
    ELSE LET dist == InlineDistance(found, Head(legit).v)
         IN MinDistance(found, Tail(legit), IF best = -1 \/ dist < best THEN dist ELSE best)

\* The loop over found_domains: what the domains found add, or an exception
RECURSIVE TyposquatLoop(_, _, _)
TyposquatLoop(found_domains, legit, max_distance) ==
    IF found_domains = <<>> THEN Ok(0)
    ELSE LET found == Lower(Head(found_domains))
             rest == TyposquatLoop(Tail(found_domains), legit, max_distance)
         IN IF legit.t # "list" THEN Raise                     \* `in None`
            ELSE IF \E i \in 1..Len(legit.v) : legit.v[i] = PyStr(found) THEN rest
            ELSE IF \E i \in 1..Len(legit.v) : legit.v[i].t # "str" THEN Raise   \* len(b)
            ELSE LET min_distance == MinDistance(found, legit.v, -1)
                 IN IF rest.exc THEN Raise
                    ELSE Ok(rest.val + (IF min_distance # -1 /\ min_distance <= max_distance
                                           /\ min_distance > 0 THEN 10 ELSE 0))

\* newrules.edit_distance_check(text_l): score
nr_edit_distance_check(C, text_l) ==
    LET legit_domains == ConfigGet(C, "legit_domains")
        max_distance == IntOf(Thresholds(C), "max_levenshtein_distance", 2)
    IN IF legit_domains.exc \/ max_distance.exc THEN Raise
       ELSE TyposquatLoop(FindDomainsFrom(text_l, 1), legit_domains.val, max_distance.val)

\* newrules.safety_checks(subject_l, text_l, kw_hits): score
nr_safety_checks(C, subject_l, text_l, kw_hits) ==
    LET SAFE_DOWN == FloatOf(Thresholds(C), "safe_downweight", 9)
        safe_terms == ConfigGet(C, "safe_terms")
        inSubject == IF safe_terms.exc \/ safe_terms.val.t # "list" THEN Raise
                     ELSE AnyIn(safe_terms.val.v, subject_l)
        inText == IF inSubject.exc THEN Raise
                  ELSE IF inSubject.val THEN Ok(TRUE)
                  ELSE AnyIn(safe_terms.val.v, text_l)
    IN IF SAFE_DOWN.exc \/ inText.exc THEN Raise
       ELSE Ok((IF RiskyAttachSearch(text_l) THEN 8 ELSE 0)
               - (IF inText.val THEN SAFE_DOWN.val ELSE 0)
               - (IF kw_hits <= 1 THEN 5 ELSE 0)
               + (IF kw_hits >= 2 THEN 2 ELSE 0))

\* The try block of newrules.classify_email: the pair it returns, or an exception
ClassifyTry(C, sndr, subj, bod) ==
    LET subject_l == Lower(safe_str(subj))
        body_l == Lower(safe_str(bod))
        text_l == subject_l \o <<"\n">> \o body_l
        PHISH_SCORE == FloatOf(Thresholds(C), "phish_score", 15)
        keywords == ConfigGet(C, "keywords")
        kw_hits == IF keywords.exc THEN Raise ELSE KwHits(keywords.val, text_l)
        wl == nr_whitelist_check(C, sndr, text_l)
        kw == nr_keyword_check(C, text_l)
        ed == nr_edit_distance_check(C, text_l)
        sc == nr_safety_checks(C, subject_l, text_l, kw_hits.val)
    IN IF PHISH_SCORE.exc \/ kw_hits.exc \/ wl.exc THEN Raise
       ELSE IF wl.val.whitelisted THEN Ok([label |-> "Ham", score |-> wl.val.score])
       ELSE IF kw.exc \/ ed.exc \/ sc.exc THEN Raise
       ELSE LET total_score == wl.val.score + kw.val + ed.val + sc.val
            IN Ok([label |-> IF total_score >= PHISH_SCORE.val THEN "Phishing" ELSE "Ham",
                   score |-> total_score])

\* Mutant: no try/except around the body
nr_classify_email_NoExcept(C, sndr, subj, bod) ==
    LET r == ClassifyTry(C, sndr, subj, bod)
    IN IF r.exc THEN [raised |-> TRUE, label |-> "none", score |-> 0]
       ELSE [raised |-> FALSE, label |-> r.val.label, score |-> r.val.score]

\* newrules.classify_email(sender, subject, body): except Exception returns
\* ("Ham", -999.0); _log_err swallows its own errors
nr_classify_email(C, sndr, subj, bod) ==
    LET r == ClassifyTry(C, sndr, subj, bod)
    IN IF r.exc THEN [raised |-> FALSE, label |-> "Ham", score |-> -9990]
       ELSE [raised |-> FALSE, label |-> r.val.label, score |-> r.val.score]

----------------------------------------------------------------------------
(* phish-detector-version2/newrules.py called on generated arguments under   *)
(* generated contents of CONFIG                                              *)

StrList(strs) == PyList([i \in 1..Len(strs) |-> PyStr(strs[i])])

DefaultThresholds == PyDict([phish_score |-> PyNum(15), keyword_weight |-> PyNum(10),
                             url_weight |-> PyNum(8), safe_downweight |-> PyNum(9)])

\* config.DEFAULT_CONFIGURATION as a Python value
DefaultConfig == PyDict([legit_domains |-> StrList(<<D_sg, D_paypal, D_google>>),
                         keywords |-> StrList(<<K_urgent, K_verify, K_account, K_password, K_click>>),
                         safe_terms |-> StrList(<<<<"n","e","w","s","l","e","t","t","e","r">>>>),
                         thresholds |-> DefaultThresholds])

LegitContents == {StrList(<<D_sg, D_paypal, D_google>>), StrList(<<D_paypal>>), PyNone,
                  PyList(<<PyInt(<<"7">>), PyStr(D_paypal)>>), StrList(<<D_paypal, <<>>>>)}
KeywordContents == {StrList(<<K_urgent, K_verify, K_account, K_password, K_click>>), PyNone,
                    PyList(<<PyStr(K_click), PyNone>>)}
SafeTermContents == {StrList(<<<<"n","e","w","s","l","e","t","t","e","r">>>>), PyNone}
ThresholdContents == {DefaultThresholds, PyNone,
                      PyDict([phish_score |-> PyStr(<<"h","i","g","h">>)]),
                      PyDict([url_weight |-> PyNone, max_levenshtein_distance |-> PyNum(10)]),
                      PyDict([phish_score |-> PyNum(5), keyword_weight |-> PyNum(5), safe_downweight |-> PyNum(0)])}

\* What CONFIG may hold: the empty dict of the import, the defaults, a config
\* with any of its four entries replaced, a config without thresholds, and
\* values that are no dict
ConfigContents ==
    {EmptyDict, DefaultConfig, PyNone, PyList(<<>>), PyDict([legit_domains |-> StrList(<<D_paypal>>)])}
    \cup {PyDict([legit_domains |-> l, keywords |-> k, safe_terms |-> st, thresholds |-> th]) :
            l \in LegitContents, k \in KeywordContents, st \in SafeTermContents, th \in ThresholdContents}

NewSenders == {PyNone, PyBadObj, PyInt(<<"4","2">>),
               PyStr(<<"u","@","p","a","y","p","a","l",".","c","o","m">>), PyStr(<<"x","@","e","v","i","l","p","a","y","p","a","l",".","c","o","m">>), PyStr(<<"u","@","m","a","i","l",".","p","a","y","p","a","l",".","c","o","m">>), PyStr(<<"u","@","e","v","i","l",".","o","r","g">>),
               PyBytes(<<"U","@","P","a","y","P","a","l",".","C","O","M">> \o <<BadByte>>)}
NewSubjects == {PyNone, PyBadObj, PyStr(<<"U","r","g","e","n","t",":"," ","v","e","r","i","f","y"," ","y","o","u","r"," ","a","c","c","o","u","n","t">>), PyStr(<<"W","e","e","k","l","y"," ","N","e","w","s","l","e","t","t","e","r">>), PyBytes(<<BadByte>> \o <<"H","i">>)}
NewWords == {K_click, <<"h","t","t","p",":","/","/","p","a","y","p","a","1",".","c","o","m","/","a",".","e","x","e">>, <<"w","w","w",".","p","a","y","p","a","l",".","c","o","m">>}
NewBodies == {PyNone, PyBytes(<<BadByte>>)} \cup {PyStr(t) : t \in Texts(NewWords, MaxWords)}
NewTexts == {Lower(safe_str(sj)) \o <<"\n">> \o Lower(safe_str(b)) : sj \in {PyNone, PyStr(<<"U","r","g","e","n","t",":"," ","v","e","r","i","f","y"," ","y","o","u","r"," ","a","c","c","o","u","n","t">>)}, b \in NewBodies}

InitNew ==
    /\ CONFIG \in ConfigContents
    /\ LEGIT_DOMAINS = {}
    /\ SUS_KEYWORDS = {}
    /\ file = NoFile
    /\ op = "none"
    /\ sender = PyNone
    /\ subject = PyNone
    /\ body = PyNone
    /\ ret = NoCall

\* classify_email(sender, subject, body)
ClassifyNewCall ==
    /\ op = "none"
    /\ \E sndr \in NewSenders, subj \in NewSubjects, bod \in NewBodies :
          /\ op' = "nr_classify_email"
          /\ sender' = sndr
          /\ subject' = subj
          /\ body' = bod
          /\ ret' = nr_classify_email(CONFIG, sndr, subj, bod)
    /\ UNCHANGED <<LEGIT_DOMAINS, SUS_KEYWORDS, file, CONFIG>>

\* whitelist_check(sender, text_l); the text is kept in body
WhitelistNewCall ==
    /\ op = "none"
    /\ \E sndr \in NewSenders, text_l \in NewTexts :
          LET r == nr_whitelist_check(CONFIG, sndr, text_l)
          IN /\ op' = "nr_whitelist_check"
             /\ sender' = sndr
             /\ body' = PyStr(text_l)
             /\ ret' = IF r.exc THEN [raised |-> TRUE, whitelisted |-> FALSE, score |-> 0]
                       ELSE [raised |-> FALSE, whitelisted |-> r.val.whitelisted, score |-> r.val.score]
    /\ UNCHANGED <<LEGIT_DOMAINS, SUS_KEYWORDS, file, subject, CONFIG>>

NextNew == \/ ClassifyNewCall
           \/ WhitelistNewCall

SpecNew == InitNew /\ [][NextNew]_vars

----------------------------------------------------------------------------
(* rules.classify_email with the loops over the rule sets run in a given    *)
(* iteration order, and two calls in a row on the same arguments            *)

\* The orders in which a set can be iterated
Orders(S) == {q \in [1..Cardinality(S) -> S] : \A i, j \in 1..Cardinality(S) : q[i] = q[j] => i = j}

\* for kw in SUS_KEYWORDS, the keywords visited in the order kws
RECURSIVE KeywordLoopIn(_, _, _, _)
KeywordLoopIn(kws, s, b, early) ==
    IF kws = <<>> THEN 0
    ELSE KeywordScore(Head(kws), s, b, early) + KeywordLoopIn(Tail(kws), s, b, early)

\* Mutant: the loop returns after the first legit domain
EditLoopIn_FirstOnly(domain, legits) ==
    IF legits = <<>> THEN 0
    ELSE IF domain # Head(legits) /\ levenshtein_distance(domain, Head(legits)) <= 2 THEN 5
    ELSE 0

\* for legit in LEGIT_DOMAINS: the first lookalike returns 5
RECURSIVE EditLoopIn(_, _)
EditLoopIn(domain, legits) ==
    IF legits = <<>> THEN 0
    ELSE IF domain # Head(legits) /\ levenshtein_distance(domain, Head(legits)) <= 2 THEN 5
    ELSE EditLoopIn(domain, Tail(legits))

\* for d in claimed: the first mismatch adds 4 and breaks
RECURSIVE ClaimedLoopIn(_, _)
ClaimedLoopIn(host, claimed) ==
    IF claimed = <<>> THEN 0
    ELSE IF ~domain_matches(host, Head(claimed)) THEN 4
    ELSE ClaimedLoopIn(host, Tail(claimed))

\* for url in urls
RECURSIVE UrlLoopIn(_, _)
UrlLoopIn(urls, claimed) ==
    IF urls = <<>> THEN 0
    ELSE LET host == url_domain(Head(urls))
         IN (IF is_ip_literal(host) THEN 5 ELSE 0)
            + (IF Contains(BeforeFirstSlash(Head(urls)), <<"@">>) THEN 3 ELSE 0)
            + ClaimedLoopIn(host, claimed)
            + UrlLoopIn(Tail(urls), claimed)

\* classify_email when LEGIT_DOMAINS iterates as legits and SUS_KEYWORDS as kws
classify_email_in(legits, kws, sndr, subj, bod) ==
    LET domain == SenderDomain(sndr)
        w == IF domain \in LEGIT_DOMAINS THEN 0 ELSE 2
        s == Lower(subj)
        b == Lower(bod)
        early == Prefix(b, EarlyChars)
        k == KeywordLoopIn(kws, s, b, early)
        e == IF domain = <<>> THEN 0 ELSE EditLoopIn(domain, legits)
        text == Lower(subj \o <<"\n">> \o bod)
        InText(d) == Contains(text, d)
        claimed == SelectSeq(legits, InText)
        urls == extract_urls(bod)
        u == IF urls = <<>> THEN 0 ELSE UrlLoopIn(urls, claimed)
        score == w + k + e + u
    IN [label |-> Label(score), score |-> score, w |-> w, k |-> k, e |-> e, u |-> u]

TwiceFiles == {persist([legit_domains |-> <<D_paypal, D_google>>, keywords |-> <<K_urgent, K_verify, K_click>>]), MessyFile}
TwiceAdded == {{}, {D_paypa1}}
TwiceSenders == {<<"u","@","p","a","y","p","a","l",".","c","o","m">>, <<"u","@","p","a","y","p","a","1",".","c","o","m">>, <<"u","@","g","o","o","g","i","e",".","c","o","m">>, <<"u","@","e","v","i","l",".","o","r","g">>}
TwiceSubjects == {<<>>, <<"U","r","g","e","n","t",":"," ","v","e","r","i","f","y"," ","p","a","y","p","a","l",".","c","o","m">>}
TwiceBodies == {<<>>, <<"c","l","i","c","k"," ","h","t","t","p",":","/","/","1",".","2",".","3",".","4">>, <<"g","o","o","g","l","e",".","c","o","m"," ","p","a","y","p","a","l",".","c","o","m"," ","h","t","t","p",":","/","/","p","a","y","p","a","l",".","c","o","m","/","x">>, <<"s","e","e"," ","h","t","t","p",":","/","/","w","w","w",".","g","o","o","g","l","e",".","c","o","m"," ","h","t","t","p",":","/","/","u","@","e","v","i","l",".","o","r","g">>, <<"V","e","r","i","f","y"," ","a","t"," ","p","a","y","p","a","1",".","c","o","m">>}
TwiceConfig == PyDict([legit_domains |-> StrList(<<D_paypal>>), keywords |-> StrList(<<K_urgent, K_click>>)])
TwiceNewSenders == {PyNone, PyStr(<<"u","@","p","a","y","p","a","1",".","c","o","m">>), PyStr(<<"u","@","e","v","i","l",".","o","r","g">>)}
TwiceNewBodies == {PyNone, PyBytes(<<BadByte>>), PyStr(<<"c","l","i","c","k"," ","h","t","t","p",":","/","/","1",".","2",".","3",".","4">>), PyStr(<<"s","e","e"," ","h","t","t","p",":","/","/","w","w","w",".","g","o","o","g","l","e",".","c","o","m"," ","h","t","t","p",":","/","/","u","@","e","v","i","l",".","o","r","g">>)}

InitTwice ==
    \E f \in TwiceFiles, added \in TwiceAdded :
       LET r == load_config_to_rules(f)
       IN /\ LEGIT_DOMAINS = r.sets.legit \cup added
          /\ SUS_KEYWORDS = r.sets.keywords
          /\ file = save_rules_to_config(LEGIT_DOMAINS, SUS_KEYWORDS)
          /\ op = "none"
          /\ sender = <<>>
          /\ subject = <<>>
          /\ body = <<>>
          /\ ret = NoCall
          /\ CONFIG = TwiceConfig

\* classify_email(sender, subject, body), the sets iterating in some order
ClassifyFirst ==
    /\ op = "none"
    /\ \E sndr \in TwiceSenders, subj \in TwiceSubjects, bod \in TwiceBodies,
          legits \in Orders(LEGIT_DOMAINS), kws \in Orders(SUS_KEYWORDS) :
          /\ op' = "classify_email first"
          /\ sender' = sndr
          /\ subject' = subj
          /\ body' = bod
          /\ ret' = [first |-> classify_email_in(legits, kws, sndr, subj, bod), order |-> legits]
    /\ UNCHANGED <<LEGIT_DOMAINS, SUS_KEYWORDS, file, CONFIG>>

\* The same call again, the sets iterating in some order
ClassifySecond ==
    /\ op = "classify_email first"
    /\ \E legits \in Orders(LEGIT_DOMAINS), kws \in Orders(SUS_KEYWORDS),
          sndr \in {sender}, subj \in {subject}, bod \in {body} :
          /\ op' = "classify_email second"
          /\ ret' = [first |-> ret.first, order |-> ret.order,
                     second |-> classify_email_in(legits, kws, sndr, subj, bod), again |-> legits]
    /\ UNCHANGED <<LEGIT_DOMAINS, SUS_KEYWORDS, file, sender, subject, body, CONFIG>>

\* newrules.classify_email(sender, subject, body)
NewClassifyFirst ==
    /\ op = "none"
    /\ \E sndr \in TwiceNewSenders, subj \in NewSubjects, bod \in TwiceNewBodies :
          /\ op' = "nr_classify_email first"
          /\ sender' = sndr
          /\ subject' = subj
          /\ body' = bod
          /\ ret' = [first |-> nr_classify_email(CONFIG, sndr, subj, bod)]
    /\ UNCHANGED <<LEGIT_DOMAINS, SUS_KEYWORDS, file, CONFIG>>

\* The same call again
NewClassifySecond ==
    /\ op = "nr_classify_email first"
    /\ \E C \in {CONFIG}, sndr \in {sender}, subj \in {subject}, bod \in {body} :
          /\ op' = "nr_classify_email second"
          /\ ret' = [first |-> ret.first, second |-> nr_classify_email(C, sndr, subj, bod)]
    /\ UNCHANGED <<LEGIT_DOMAINS, SUS_KEYWORDS, file, sender, subject, body, CONFIG>>

NextTwice == \/ ClassifyFirst
             \/ ClassifySecond
             \/ NewClassifyFirst
             \/ NewClassifySecond

SpecTwice == InitTwice /\ [][NextTwice]_vars

----------------------------------------------------------------------------
(* rules.py with two threads of the Streamlit server: one session resets or  *)
(* reloads the configuration while another classifies. The module's sets     *)
(* are shared and no lock is taken; a thread can be preempted between any    *)
(* two statements. op holds the position of each thread.                     *)

ConcSenders == {<<"u","@","p","a","y","p","a","l",".","c","o","m">>, <<"u","@","p","a","y","p","a","1",".","c","o","m">>, <<"u","@","e","v","i","l",".","o","r","g">>}
ConcSubjects == {<<>>, <<"U","r","g","e","n","t",":"," ","v","e","r","i","f","y"," ","p","a","y","p","a","l",".","c","o","m">>}
ConcBodies == {<<>>, <<"c","l","i","c","k"," ","h","t","t","p",":","/","/","1",".","2",".","3",".","4">>, <<"g","o","o","g","l","e",".","c","o","m"," ","p","a","y","p","a","l",".","c","o","m"," ","h","t","t","p",":","/","/","p","a","y","p","a","l",".","c","o","m","/","x">>}

InitConc ==
    \E f \in DetectFiles, added \in DetectAdded :
       LET r == load_config_to_rules(f)
       IN /\ LEGIT_DOMAINS = r.sets.legit \cup added
          /\ SUS_KEYWORDS = r.sets.keywords
          /\ file = save_rules_to_config(LEGIT_DOMAINS, SUS_KEYWORDS)
          /\ op = [writer |-> "idle", reader |-> "idle", cfg |-> <<>>]
          /\ sender = <<>>
          /\ subject = <<>>
          /\ body = <<>>
          /\ ret = [old |-> [legit |-> LEGIT_DOMAINS, keywords |-> SUS_KEYWORDS],
                    w |-> 0, k |-> 0, e |-> 0, u |-> 0, score |-> 0, label |-> "none"]
          /\ CONFIG = <<>>

\* reset_to_defaults() is entered: apply_cfg(DEFAULT_CONFIGURATION) is about to run
ResetBegin ==
    /\ op.writer = "idle"
    /\ op' = [op EXCEPT !.writer = "clear_legit", !.cfg = DEFAULT_CONFIGURATION]
    /\ UNCHANGED <<LEGIT_DOMAINS, SUS_KEYWORDS, file, sender, subject, body, ret, CONFIG>>

\* load_config_to_rules() is entered and has read config.json
ReloadBegin ==
    /\ op.writer = "idle"
    /\ op' = [op EXCEPT !.writer = "clear_legit", !.cfg = file.cfg]
    /\ UNCHANGED <<LEGIT_DOMAINS, SUS_KEYWORDS, file, sender, subject, body, ret, CONFIG>>

\* LEGIT_DOMAINS.clear()
ClearLegit ==
    /\ op.writer = "clear_legit"
    /\ LEGIT_DOMAINS' = {}
    /\ op' = [op EXCEPT !.writer = "update_legit"]
    /\ UNCHANGED <<SUS_KEYWORDS, file, sender, subject, body, ret, CONFIG>>

\* LEGIT_DOMAINS.update(...)
UpdateLegit ==
    /\ op.writer = "update_legit"
    /\ LEGIT_DOMAINS' = LEGIT_DOMAINS \cup Normalized(Get(op.cfg, "legit_domains"))
    /\ op' = [op EXCEPT !.writer = "clear_keywords"]
    /\ UNCHANGED <<SUS_KEYWORDS, file, sender, subject, body, ret, CONFIG>>

\* SUS_KEYWORDS.clear()
ClearKeywords ==
    /\ op.writer = "clear_keywords"
    /\ SUS_KEYWORDS' = {}
    /\ op' = [op EXCEPT !.writer = "update_keywords"]
    /\ UNCHANGED <<LEGIT_DOMAINS, file, sender, subject, body, ret, CONFIG>>

\* SUS_KEYWORDS.update(...); reset_to_defaults then persists the defaults (a
\* reload leaves the file holding what it read)
UpdateKeywords ==
    /\ op.writer = "update_keywords"
    /\ SUS_KEYWORDS' = SUS_KEYWORDS \cup Normalized(Get(op.cfg, "keywords"))
    /\ file' = persist(op.cfg)
    /\ op' = [op EXCEPT !.writer = "done"]
    /\ UNCHANGED <<LEGIT_DOMAINS, sender, subject, body, ret, CONFIG>>

\* classify_email(sender, subject, body) is entered
ClassifyBegin ==
    /\ op.reader = "idle"
    /\ \E sndr \in ConcSenders, subj \in ConcSubjects, bod \in ConcBodies :
          /\ sender' = sndr
          /\ subject' = subj
          /\ body' = bod
    /\ op' = [op EXCEPT !.reader = "whitelist_check"]
    /\ UNCHANGED <<LEGIT_DOMAINS, SUS_KEYWORDS, file, ret, CONFIG>>

\* score = whitelist_check(sender)
StepWhitelist ==
    /\ op.reader = "whitelist_check"
    /\ \E sndr \in {sender} : ret' = [ret EXCEPT !.w = whitelist_check(sndr)]
    /\ op' = [op EXCEPT !.reader = "keyword_check"]
    /\ UNCHANGED <<LEGIT_DOMAINS, SUS_KEYWORDS, file, sender, subject, body, CONFIG>>

\* score += keyword_check(subject, body)
StepKeyword ==
    /\ op.reader = "keyword_check"
    /\ \E subj \in {subject}, bod \in {body} : ret' = [ret EXCEPT !.k = keyword_check(subj, bod)]
    /\ op' = [op EXCEPT !.reader = "edit_distance_check"]
    /\ UNCHANGED <<LEGIT_DOMAINS, SUS_KEYWORDS, file, sender, subject, body, CONFIG>>

\* score += edit_distance_check(sender)
StepEditDistance ==
    /\ op.reader = "edit_distance_check"
    /\ \E sndr \in {sender} : ret' = [ret EXCEPT !.e = edit_distance_check(sndr)]
    /\ op' = [op EXCEPT !.reader = "suspicious_url_check"]
    /\ UNCHANGED <<LEGIT_DOMAINS, SUS_KEYWORDS, file, sender, subject, body, CONFIG>>

\* score += suspicious_url_check(subject, body); the label; return
StepUrl ==
    /\ op.reader = "suspicious_url_check"
    /\ \E subj \in {subject}, bod \in {body} :
          LET u == suspicious_url_check(subj, bod)
              score == ret.w + ret.k + ret.e + u
          IN ret' = [ret EXCEPT !.u = u, !.score = score, !.label = Label(score)]
    /\ op' = [op EXCEPT !.reader = "done"]
    /\ UNCHANGED <<LEGIT_DOMAINS, SUS_KEYWORDS, file, sender, subject, body, CONFIG>>

NextConc == \/ ResetBegin
            \/ ReloadBegin
            \/ ClearLegit
            \/ UpdateLegit
            \/ ClearKeywords
            \/ UpdateKeywords
            \/ ClassifyBegin
            \/ StepWhitelist
            \/ StepKeyword
            \/ StepEditDistance
            \/ StepUrl

SpecConc == InitConc /\ [][NextConc]_vars

----------------------------------------------------------------------------
(* rules.load_config_to_rules() with the exceptions it lets through, run on  *)
(* whatever config.json may hold, once and then once more                    *)

\* An entry of a JSON list that is a number: it has no strip() and does not
\* compare with a str
JsonNumber == <<"json number">>
HasNonStr(items) == \E i \in 1..Len(items) : items[i] = JsonNumber
HasStr(items) == \E i \in 1..Len(items) : items[i] # JsonNumber

\* config.json holds valid JSON that is no object (a list, a number, null)
NonObjectFile == [kind |-> "nonobject", cfg |-> [keywords |-> <<>>]]

\* load_config_to_rules() without the persist of the defaults when no file exists
LoadOutcome_NoCreate(f, legit, keywords) ==
    IF f.kind = "nonobject"
    THEN [raised |-> TRUE, legit |-> legit, keywords |-> keywords, file |-> f]
    ELSE LET cfg0 == IF f.kind = "json" THEN f.cfg ELSE DEFAULT_CONFIGURATION
             f0 == f
             migrate == "legit_domains" \notin DOMAIN cfg0
             old == Get(cfg0, "whitelist") \o Get(cfg0, "brands")
             unsortable == migrate /\ HasNonStr(old) /\ HasStr(old)
             merged == IF HasNonStr(old) THEN <<JsonNumber>> ELSE Sorted(Elems(old))
             cfg1 == IF migrate
                     THEN Pop(Pop(Put(cfg0, "legit_domains", merged), "whitelist"), "brands")
                     ELSE cfg0
             f1 == IF migrate THEN persist(cfg1) ELSE f0
             legitItems == Get(cfg1, "legit_domains")
             keywordItems == Get(cfg1, "keywords")
         IN IF unsortable
            THEN [raised |-> TRUE, legit |-> legit, keywords |-> keywords, file |-> f0]
            ELSE IF HasNonStr(legitItems)          \* after LEGIT_DOMAINS.clear()
            THEN [raised |-> TRUE, legit |-> {}, keywords |-> keywords, file |-> f1]
            ELSE IF HasNonStr(keywordItems)        \* after SUS_KEYWORDS.clear()
            THEN [raised |-> TRUE, legit |-> Normalized(legitItems), keywords |-> {}, file |-> f1]
            ELSE [raised |-> FALSE, legit |-> Normalized(legitItems),
                  keywords |-> Normalized(keywordItems), file |-> f1]

\* load_config_to_rules() called when the sets hold legit and keywords: whether
\* it raised, and the sets and the file it leaves. json.load errors are caught;
\* the membership test, get, sorted and apply_cfg are outside the try.
LoadOutcome(f, legit, keywords) ==
    IF f.kind = "nonobject"
    THEN [raised |-> TRUE, legit |-> legit, keywords |-> keywords, file |-> f]
    ELSE LET cfg0 == IF f.kind = "json" THEN f.cfg ELSE DEFAULT_CONFIGURATION
             f0 == IF f.kind = "absent" THEN persist(cfg0) ELSE f
             migrate == "legit_domains" \notin DOMAIN cfg0
             old == Get(cfg0, "whitelist") \o Get(cfg0, "brands")
             unsortable == migrate /\ HasNonStr(old) /\ HasStr(old)
             merged == IF HasNonStr(old) THEN <<JsonNumber>> ELSE Sorted(Elems(old))
             cfg1 == IF migrate
                     THEN Pop(Pop(Put(cfg0, "legit_domains", merged), "whitelist"), "brands")
                     ELSE cfg0
             f1 == IF migrate THEN persist(cfg1) ELSE f0
             legitItems == Get(cfg1, "legit_domains")
             keywordItems == Get(cfg1, "keywords")
         IN IF unsortable
            THEN [raised |-> TRUE, legit |-> legit, keywords |-> keywords, file |-> f0]
            ELSE IF HasNonStr(legitItems)          \* after LEGIT_DOMAINS.clear()
            THEN [raised |-> TRUE, legit |-> {}, keywords |-> keywords, file |-> f1]
            ELSE IF HasNonStr(keywordItems)        \* after SUS_KEYWORDS.clear()
            THEN [raised |-> TRUE, legit |-> Normalized(legitItems), keywords |-> {}, file |-> f1]
            ELSE [raised |-> FALSE, legit |-> Normalized(legitItems),
                  keywords |-> Normalized(keywordItems), file |-> f1]

NumberInLegitFile == persist([legit_domains |-> <<D_paypal, JsonNumber>>, keywords |-> <<K_urgent>>])
NumberInKeywordsFile == persist([legit_domains |-> <<D_paypal>>, keywords |-> <<JsonNumber, K_urgent>>])
NumberInWhitelistFile == persist([whitelist |-> <<JsonNumber, D_paypal>>, keywords |-> <<K_urgent>>])
NumbersOnlyWhitelistFile == persist([whitelist |-> <<JsonNumber>>])
LoadFiles == InitialFiles \cup {NoFile, CorruptFile, NonObjectFile, NumberInLegitFile,
                                NumberInKeywordsFile, NumberInWhitelistFile, NumbersOnlyWhitelistFile}
LoadPriorLegit == {{}, {D_paypal, D_google}, {D_sg, D_paypal, D_google, D_paypa1}}
LoadPriorKeywords == {{}, {K_urgent, K_free}, {K_urgent, K_verify, K_account, K_password, K_click}}

\* The sets as some earlier session left them, config.json as it is found now
InitLoad ==
    /\ LEGIT_DOMAINS \in LoadPriorLegit
    /\ SUS_KEYWORDS \in LoadPriorKeywords
    /\ file \in LoadFiles
    /\ op = "none"
    /\ sender = <<>>
    /\ subject = <<>>
    /\ body = <<>>
    /\ ret = NoCall
    /\ CONFIG = <<>>

\* load_config_to_rules()
LoadFirst ==
    /\ op = "none"
    /\ LET r == LoadOutcome(file, LEGIT_DOMAINS, SUS_KEYWORDS)
       IN /\ LEGIT_DOMAINS' = r.legit
          /\ SUS_KEYWORDS' = r.keywords
          /\ file' = r.file
          /\ ret' = [raised |-> r.raised, read |-> file]
    /\ op' = "load_config_to_rules first"
    /\ UNCHANGED <<sender, subject, body, CONFIG>>

\* load_config_to_rules() again, nothing else in between
LoadSecond ==
    /\ op = "load_config_to_rules first"
    /\ LET r == LoadOutcome(file, LEGIT_DOMAINS, SUS_KEYWORDS)
       IN /\ LEGIT_DOMAINS' = r.legit
          /\ SUS_KEYWORDS' = r.keywords
          /\ file' = r.file
          /\ ret' = [raised |-> r.raised, read |-> ret.read,
                     first |-> [raised |-> ret.raised, legit |-> LEGIT_DOMAINS,
                                keywords |-> SUS_KEYWORDS, file |-> file]]
    /\ op' = "load_config_to_rules second"
    /\ UNCHANGED <<sender, subject, body, CONFIG>>

\* reset_to_defaults(), whatever the sets and the file held
ResetCall ==
    /\ op = "none"
    /\ LEGIT_DOMAINS' = reset_to_defaults.sets.legit
    /\ SUS_KEYWORDS' = reset_to_defaults.sets.keywords
    /\ file' = reset_to_defaults.file
    /\ ret' = [raised |-> FALSE, read |-> file,
               prior |-> [legit |-> LEGIT_DOMAINS, keywords |-> SUS_KEYWORDS]]
    /\ op' = "reset_to_defaults"
    /\ UNCHANGED <<sender, subject, body, CONFIG>>

NextLoad == \/ LoadFirst
            \/ LoadSecond
            \/ ResetCall

SpecLoad == InitLoad /\ [][NextLoad]_vars

----------------------------------------------------------------------------
(* phish-detector/phishdetector/utils.py: string helpers *)

\* previous_row after the rows i..len(a) of the loop over a; a row is computed
\* as in rules.py, from the row above and the entries to its left
RECURSIVE PreviousRow(_, _, _, _)
PreviousRow(a, b, i, previous_row) ==
    IF i > Len(a) THEN previous_row
    ELSE PreviousRow(a, b, i + 1, LevRow(a, b, i, previous_row, <<i>>))

\* utils.levenshtein_distance(a, b): equal strings exit early, the shorter
\* string is made a
utils_levenshtein_distance(a, b) ==
    IF a = b THEN 0
    ELSE LET x == IF Len(a) > Len(b) THEN b ELSE a
             y == IF Len(a) > Len(b) THEN a ELSE b
         IN Last(PreviousRow(x, y, 1, [j \in 1..(Len(y) + 1) |-> j - 1]))

----------------------------------------------------------------------------
(* The two edit distances applied to generated strings a, b, c, kept in      *)
(* sender, subject and body                                                  *)

MaxLen == 3
LevAlphabet == {"a", "b"}

RECURSIVE StringsUpTo(_, _)
StringsUpTo(A, n) ==
    IF n = 0 THEN {<<>>}
    ELSE LET shorter == StringsUpTo(A, n - 1)
         IN shorter \cup {Append(t, ch) : t \in shorter, ch \in A}

LevStrings == StringsUpTo(LevAlphabet, MaxLen)

InitLev ==
    /\ sender \in LevStrings
    /\ subject \in LevStrings
    /\ body \in LevStrings
    /\ LEGIT_DOMAINS = {}
    /\ SUS_KEYWORDS = {}
    /\ file = NoFile
    /\ op = "none"
    /\ ret = NoCall
    /\ CONFIG = <<>>

\* rules.levenshtein_distance on the pairs of a, b, c
RulesLevCall ==
    /\ op = "none"
    /\ op' = "levenshtein_distance"
    /\ ret' = [aa |-> levenshtein_distance(sender, sender),
               ab |-> levenshtein_distance(sender, subject),
               ba |-> levenshtein_distance(subject, sender),
               bc |-> levenshtein_distance(subject, body),
               ac |-> levenshtein_distance(sender, body)]
    /\ UNCHANGED <<LEGIT_DOMAINS, SUS_KEYWORDS, file, sender, subject, body, CONFIG>>

\* utils.levenshtein_distance on the pairs of a, b, c
UtilsLevCall ==
    /\ op = "none"
    /\ op' = "utils.levenshtein_distance"
    /\ ret' = [aa |-> utils_levenshtein_distance(sender, sender),
               ab |-> utils_levenshtein_distance(sender, subject),
               ba |-> utils_levenshtein_distance(subject, sender),
               bc |-> utils_levenshtein_distance(subject, body),
               ac |-> utils_levenshtein_distance(sender, body)]
    /\ UNCHANGED <<LEGIT_DOMAINS, SUS_KEYWORDS, file, sender, subject, body, CONFIG>>

NextLev == \/ RulesLevCall
           \/ UtilsLevCall

SpecLev == InitLev /\ [][NextLev]_vars

----------------------------------------------------------------------------
(* The three edit distances applied to one pair of generated strings a, b,   *)
(* kept in sender and subject                                                *)

EditAlphabet == {"a", "A", "b"}
EditStrings == StringsUpTo(EditAlphabet, MaxLen)

InitEdit ==
    /\ sender \in EditStrings
    /\ subject \in EditStrings
    /\ body = <<>>
    /\ LEGIT_DOMAINS = {}
    /\ SUS_KEYWORDS = {}
    /\ file = NoFile
    /\ op = "none"
    /\ ret = [distance |-> 0]
    /\ CONFIG = <<>>

\* rules.levenshtein_distance(a, b)
RulesEditCall ==
    /\ op = "none"
    /\ op' = "rules.levenshtein_distance"
    /\ ret' = [distance |-> levenshtein_distance(sender, subject)]
    /\ UNCHANGED <<LEGIT_DOMAINS, SUS_KEYWORDS, file, sender, subject, body, CONFIG>>

\* utils.levenshtein_distance(a, b)
UtilsEditCall ==
    /\ op = "none"
    /\ op' = "utils.levenshtein_distance"
    /\ ret' = [distance |-> utils_levenshtein_distance(sender, subject)]
    /\ UNCHANGED <<LEGIT_DOMAINS, SUS_KEYWORDS, file, sender, subject, body, CONFIG>>

\* The dynamic program inside newrules.edit_distance_check, a being the domain
\* found and b the legit domain
InlineEditCall ==
    /\ op = "none"
    /\ op' = "newrules inline distance"
    /\ ret' = [distance |-> InlineDistance(sender, subject)]
    /\ UNCHANGED <<LEGIT_DOMAINS, SUS_KEYWORDS, file, sender, subject, body, CONFIG>>

NextEdit == \/ RulesEditCall
            \/ UtilsEditCall
            \/ InlineEditCall

SpecEdit == InitEdit /\ [][NextEdit]_vars

----------------------------------------------------------------------------
(* phish-detector: the helpers of utils.py that rules.py scores URLs and     *)
(* senders with, and suspicious_url_detection                                *)

\* email.split("@", 1)[1].lower().strip() if "@" in email else ""
utils_extract_domain(email) ==
    IF Contains(email, <<"@">>) THEN Strip(Lower(Split1(email, <<"@">>)[2])) ELSE <<>>

\* The characters that end a URL in extract_urls: \s ) ] >
UrlStop == Whitespace \cup {")", "]", ">"}

\* re.findall(r"https?://[^\s)\]>]+", text): leftmost, non-overlapping matches
RECURSIVE UtilsFindUrlsFrom(_, _)
UtilsFindUrlsFrom(text, i) ==
    LET starts == {j \in i..Len(text) :
                      /\ SchemeLenAt(text, j) > 0
                      /\ j + SchemeLenAt(text, j) <= Len(text)
                      /\ text[j + SchemeLenAt(text, j)] \notin UrlStop}
    IN IF starts = {} THEN <<>>
       ELSE LET j == CHOOSE x \in starts : \A y \in starts : x <= y
                e == NextOf(text, UrlStop, j + SchemeLenAt(text, j))
            IN <<SubSeq(text, j, e - 1)>> \o UtilsFindUrlsFrom(text, e)

utils_extract_urls(text) == UtilsFindUrlsFrom(text, 1)

\* re.sub(r"^https?://", "", url).split("/", 1)[0], then .split(":", 1)[0].lower()
extract_domain_from_url(url) ==
    LET host_port_path == Split1(Suffix(url, SchemeLenAt(url, 1)), <<"/">>)[1]
        host == Split1(host_port_path, <<":">>)[1]
    IN Lower(host)

\* re.fullmatch(r"(\d{1,3}\.){3}\d{1,3}", host)
is_ipv4_address(host) ==
    LET parts == Split(host, <<".">>)
    IN /\ Len(parts) = 4
       /\ \A p \in 1..4 : /\ Len(parts[p]) \in 1..3
                          /\ \A i \in 1..Len(parts[p]) : parts[p][i] \in Digits

PD_WHITELISTED_DOMAINS == <<<<"g","m","a","i","l",".","c","o","m">>, <<"o","u","t","l","o","o","k",".","c","o","m">>, <<"y","a","h","o","o",".","c","o","m">>, <<"a","p","p","l","e",".","c","o","m">>, <<"m","i","c","r","o","s","o","f","t",".","c","o","m">>, <<"a","m","a","z","o","n",".","c","o","m">>>>
PD_KNOWN_BRAND_NAMES == <<<<"a","p","p","l","e">>, <<"m","i","c","r","o","s","o","f","t">>, <<"a","m","a","z","o","n">>, <<"g","o","o","g","l","e">>, <<"p","a","y","p","a","l">>, <<"n","e","t","f","l","i","x">>>>
PD_SUSPICIOUS_KEYWORDS == <<<<"u","r","g","e","n","t">>, <<"v","e","r","i","f","y">>, <<"a","c","c","o","u","n","t">>, <<"c","l","i","c","k">>, <<"p","a","s","s","w","o","r","d">>, <<"l","o","g","i","n">>, <<"u","p","d","a","t","e">>, <<"c","o","n","f","i","r","m">>, <<"s","e","c","u","r","i","t","y">>, <<"i","n","v","o","i","c","e">>, <<"p","a","y","m","e","n","t">>, <<"l","i","m","i","t","e","d">>, <<"s","u","s","p","e","n","d">>>>

\* The three lists of phish-detector/rules.py as the module defines them
PDLists == [WHITELISTED_DOMAINS |-> PD_WHITELISTED_DOMAINS,
            KNOWN_BRAND_NAMES |-> PD_KNOWN_BRAND_NAMES,
            SUSPICIOUS_KEYWORDS |-> PD_SUSPICIOUS_KEYWORDS]

DotCom == <<".", "c", "o", "m">>

\* One pass of `for u in urls`: what the URL adds to the score
UrlDetectionScore(u, sender_domain, brands) ==
    LET host == extract_domain_from_url(u)
        mismatch == \E i \in 1..Len(brands) :
                       /\ Contains(Lower(u), brands[i])
                       /\ ~EndsWith(host, brands[i] \o DotCom)
    IN IF is_ipv4_address(host) THEN 5
       ELSE (IF mismatch THEN 4 ELSE 0)
            + (IF sender_domain # <<>> /\ ~EndsWith(host, sender_domain) THEN 3 ELSE 0)

RECURSIVE UrlDetectionLoop(_, _, _)
UrlDetectionLoop(urls, sender_domain, brands) ==
    IF urls = <<>> THEN 0
    ELSE UrlDetectionScore(Head(urls), sender_domain, brands)
         + UrlDetectionLoop(Tail(urls), sender_domain, brands)

\* suspicious_url_detection(text, sender_email): the score, capped at 12
suspicious_url_detection(text, sender_email, brands) ==
    LET urls == utils_extract_urls(text)
        score == UrlDetectionLoop(urls, utils_extract_domain(sender_email), brands)
    IN IF urls = <<>> THEN 0
       ELSE IF score > 12 THEN 12 ELSE score

\* phish-detector whitelist_check(sender_email): 0 on a whitelist hit, else 5
pd_whitelist_check(sender_email, whitelist) ==
    IF \E i \in 1..Len(whitelist) : whitelist[i] = utils_extract_domain(sender_email) THEN 0 ELSE 5

----------------------------------------------------------------------------
(* The helpers applied to generated addresses and texts. CONFIG holds the   *)
(* three lists of phish-detector/rules.py.                                   *)

UtilsAddresses ==
    {<<>>,
     <<"u","s","e","r">>,
     <<"u","s","e","r","@","g","m","a","i","l",".","c","o","m">>,
     <<"U","s","e","r","@","G","M","A","I","L",".","c","o","m"," ">>,
     <<"a","@","b","@","g","m","a","i","l",".","c","o","m">>,
     <<"x","@"," ","Y","a","h","o","o",".","c","o","m">>,
     <<"@">>,
     <<"u","s","e","r","@">>,
     <<"b","o","b","@","e","v","i","l",".","o","r","g">>,
     <<"\"","a","@","b","\"","@","a","p","p","l","e",".","c","o","m">>}

UtilsUrls ==
    {<<"h","t","t","p",":","/","/","u","s","e","r","@","1","9","2",".","1","6","8",".","1",".","1",":","8","0","8","0","/","x">>,
     <<"h","t","t","p",":","/","/","1","9","2",".","1","6","8",".","1",".","1",":","8","0","8","0","/","x">>,
     <<"h","t","t","p",":","/","/","1","9","2",".","1","6","8",".","1",".","1">>,
     <<"h","t","t","p","s",":","/","/","1","0",".","0",".","0",".","1","/","l","o","g","i","n">>,
     <<"h","t","t","p",":","/","/","u",":","p","@","1","0",".","0",".","0",".","1","/">>,
     <<"h","t","t","p",":","/","/","p","a","y","p","a","l",".","c","o","m","/","x">>,
     <<"h","t","t","p","s",":","/","/","e","v","i","l",".","o","r","g","/","p","a","y","p","a","l">>,
     <<"h","t","t","p",":","/","/","G","M","A","I","L",".","c","o","m",":","8","0">>,
     <<"h","t","t","p",":","/","/","1",".","2",".","3",".","4","5","6","7","/">>,
     <<"h","t","t","p",":","/","/","a","@","g","m","a","i","l",".","c","o","m">>}

\* The text around a link
UtilsTextsOf(u) == {u, <<"s", "e", "e", " ", "(">> \o u \o <<")", " ", "n", "o", "w">>, u \o <<"\n">> \o u}
UtilsTexts == {<<>>, <<"n", "o", " ", "l", "i", "n", "k">>} \cup UNION {UtilsTextsOf(u) : u \in UtilsUrls}

InitUtils ==
    /\ CONFIG = PDLists
    /\ sender \in UtilsAddresses
    /\ body \in UtilsTexts
    /\ subject = <<>>
    /\ op = "none"
    /\ ret = NoCall
    /\ LEGIT_DOMAINS = {}
    /\ SUS_KEYWORDS = {}
    /\ file = NoFile

\* extract_domain(sender), and whitelist_check on it
ExtractDomainCall ==
    /\ op = "none"
    /\ op' = "extract_domain"
    /\ ret' = [domain |-> utils_extract_domain(sender),
               score |-> pd_whitelist_check(sender, CONFIG.WHITELISTED_DOMAINS)]
    /\ UNCHANGED <<LEGIT_DOMAINS, SUS_KEYWORDS, file, sender, subject, body, CONFIG>>

\* suspicious_url_detection(body, sender)
UrlDetectionCall ==
    /\ op = "none"
    /\ op' = "suspicious_url_detection"
    /\ ret' = [urls |-> utils_extract_urls(body),
               hosts |-> [i \in 1..Len(utils_extract_urls(body)) |->
                             extract_domain_from_url(utils_extract_urls(body)[i])],
               score |-> suspicious_url_detection(body, sender, CONFIG.KNOWN_BRAND_NAMES)]
    /\ UNCHANGED <<LEGIT_DOMAINS, SUS_KEYWORDS, file, sender, subject, body, CONFIG>>

NextUtils == \/ ExtractDomainCall
             \/ UrlDetectionCall

SpecUtils == InitUtils /\ [][NextUtils]_vars

----------------------------------------------------------------------------
(* phish-detector/rules.py: adding to the three lists at runtime, from the   *)
(* sidebar of app.py and through the functions the package re-exports        *)

\* _normalize_items(values): None is skipped, str(v).strip().lower() is kept
\* when it is not empty
RECURSIVE normalize_items(_)
normalize_items(values) ==
    IF values = <<>> THEN <<>>
    ELSE LET v == Head(values)
             nv == Lower(Strip(v.v))
         IN IF v.t = "none" THEN normalize_items(Tail(values))
            ELSE IF nv # <<>> THEN <<nv>> \o normalize_items(Tail(values))
            ELSE normalize_items(Tail(values))

InList(x, list) == \E i \in 1..Len(list) : list[i] = x

\* Mutant: every normalized item is appended, present already or not
RECURSIVE AddLoop_NoCheck(_, _, _)
AddLoop_NoCheck(list, items, added) ==
    IF items = <<>> THEN [list |-> list, added |-> added]
    ELSE AddLoop_NoCheck(Append(list, Head(items)), Tail(items), added + 1)

\* for x in items: if x not in LIST: LIST.append(x); added += 1
RECURSIVE AddLoop(_, _, _)
AddLoop(list, items, added) ==
    IF items = <<>> THEN [list |-> list, added |-> added]
    ELSE IF InList(Head(items), list)
         THEN AddLoop(list, Tail(items), added)
         ELSE AddLoop(Append(list, Head(items)), Tail(items), added + 1)

add_whitelisted_domains(values, lists) ==
    LET r == AddLoop(lists.WHITELISTED_DOMAINS, normalize_items(values), 0)
    IN [lists |-> [lists EXCEPT !.WHITELISTED_DOMAINS = r.list], added |-> r.added]

add_known_brand_names(values, lists) ==
    LET r == AddLoop(lists.KNOWN_BRAND_NAMES, normalize_items(values), 0)
    IN [lists |-> [lists EXCEPT !.KNOWN_BRAND_NAMES = r.list], added |-> r.added]

add_suspicious_keywords(values, lists) ==
    LET r == AddLoop(lists.SUSPICIOUS_KEYWORDS, normalize_items(values), 0)
    IN [lists |-> [lists EXCEPT !.SUSPICIOUS_KEYWORDS = r.list], added |-> r.added]

\* [p.strip() for p in text.replace("\n", ",").split(",") if p.strip()]
SidebarItems(text) ==
    LET commas == [i \in 1..Len(text) |-> IF text[i] = "\n" THEN "," ELSE text[i]]
        pieces == Split(commas, <<",">>)
        kept == SelectSeq(pieces, LAMBDA piece : Strip(piece) # <<>>)
    IN [i \in 1..Len(kept) |-> PyStr(Strip(kept[i]))]

\* What is typed into a text area of the sidebar
SidebarInputs == {<<>>, <<" ", ",", "\n">>,
                  <<"S","h","o","p",".","c","o","m",","," ","g","m","a","i","l",".","c","o","m","\n","s","h","o","p",".","c","o","m"," ",",">>}

\* Arguments of a call from other code
DirectValues == {<<>>,
                 <<PyNone, PyStr(<<" ","L","o","g","i","n"," ">>), PyInt(<<"4", "2">>), PyStr(<<" ", "\t">>),
                   PyStr(<<"l","o","g","i","n">>)>>}

InitAdd ==
    /\ CONFIG = PDLists
    /\ sender = <<>>
    /\ subject = <<>>
    /\ body = <<>>
    /\ op = "none"
    /\ ret = NoCall
    /\ LEGIT_DOMAINS = {}
    /\ SUS_KEYWORDS = {}
    /\ file = NoFile

\* The record of a call fn(values) that returned r: same tells that the call
\* before it was the same call
AddRecord(fn, values, r, before) ==
    [values |-> values, added |-> r.added, before |-> before,
     same |-> IF op = fn THEN ret.values = values ELSE FALSE]

\* add_whitelisted_domains(values)
AddWhitelistedDomains(values) ==
    LET r == add_whitelisted_domains(values, CONFIG)
    IN /\ CONFIG' = r.lists
       /\ op' = "add_whitelisted_domains"
       /\ ret' = AddRecord("add_whitelisted_domains", values, r, CONFIG.WHITELISTED_DOMAINS)
       /\ UNCHANGED <<LEGIT_DOMAINS, SUS_KEYWORDS, file, sender, subject, body>>

\* add_known_brand_names(values)
AddKnownBrandNames(values) ==
    LET r == add_known_brand_names(values, CONFIG)
    IN /\ CONFIG' = r.lists
       /\ op' = "add_known_brand_names"
       /\ ret' = AddRecord("add_known_brand_names", values, r, CONFIG.KNOWN_BRAND_NAMES)
       /\ UNCHANGED <<LEGIT_DOMAINS, SUS_KEYWORDS, file, sender, subject, body>>

\* add_suspicious_keywords(values)
AddSuspiciousKeywords(values) ==
    LET r == add_suspicious_keywords(values, CONFIG)
    IN /\ CONFIG' = r.lists
       /\ op' = "add_suspicious_keywords"
       /\ ret' = AddRecord("add_suspicious_keywords", values, r, CONFIG.SUSPICIOUS_KEYWORDS)
       /\ UNCHANGED <<LEGIT_DOMAINS, SUS_KEYWORDS, file, sender, subject, body>>

\* st.info(...): nothing to add
NothingEntered ==
    /\ op' = "none"
    /\ ret' = NoCall
    /\ UNCHANGED <<LEGIT_DOMAINS, SUS_KEYWORDS, file, sender, subject, body, CONFIG>>

\* Sidebar: "Add domains"
AddDomainsButton ==
    \E domains_input \in SidebarInputs :
       IF SidebarItems(domains_input) # <<>>
       THEN AddWhitelistedDomains(SidebarItems(domains_input))
       ELSE NothingEntered

\* Sidebar: "Add brands"
AddBrandsButton ==
    \E brands_input \in SidebarInputs :
       IF SidebarItems(brands_input) # <<>>
       THEN AddKnownBrandNames(SidebarItems(brands_input))
       ELSE NothingEntered

\* Sidebar: "Add keywords"
AddKeywordsButton ==
    \E keywords_input \in SidebarInputs :
       IF SidebarItems(keywords_input) # <<>>
       THEN AddSuspiciousKeywords(SidebarItems(keywords_input))
       ELSE NothingEntered

\* phishdetector.add_whitelisted_domains(values) called from other code
AddWhitelistedDomainsCall == \E values \in DirectValues : AddWhitelistedDomains(values)

\* phishdetector.add_known_brand_names(values) called from other code
AddKnownBrandNamesCall == \E values \in DirectValues : AddKnownBrandNames(values)

\* phishdetector.add_suspicious_keywords(values) called from other code
AddSuspiciousKeywordsCall == \E values \in DirectValues : AddSuspiciousKeywords(values)

NextAdd == \/ AddDomainsButton
           \/ AddBrandsButton
           \/ AddKeywordsButton
           \/ AddWhitelistedDomainsCall
           \/ AddKnownBrandNamesCall
           \/ AddSuspiciousKeywordsCall

SpecAdd == InitAdd /\ [][NextAdd]_vars

----------------------------------------------------------------------------
(* phish-detector/rules.py: the keyword and the URL score with the details   *)
(* text each returns                                                         *)

DigitChars == <<"0", "1", "2", "3", "4", "5", "6", "7", "8", "9">>

\* str(n) of a natural number, as an f-string writes it
RECURSIVE IntStr(_)
IntStr(n) == IF n < 10 THEN <<DigitChars[n + 1]>>
             ELSE IntStr(n \div 10) \o <<DigitChars[(n % 10) + 1]>>

\* t.count(k) for a non-empty k: occurrences found left to right, none overlapping
RECURSIVE StrCount(_, _)
StrCount(t, k) ==
    IF Find(t, k) = 0 THEN 0
    ELSE 1 + StrCount(Suffix(t, Find(t, k) - 1 + Len(k)), k)

\* "\n".join(lines)
RECURSIVE JoinLines(_)
JoinLines(lines) ==
    IF lines = <<>> THEN <<>>
    ELSE IF Len(lines) = 1 THEN lines[1]
    ELSE lines[1] \o <<"\n">> \o JoinLines(Tail(lines))

ScoreCap == 12
KeywordCapNote == <<"C","a","p","p","e","d"," ","k","e","y","w","o","r","d"," ","s","c","o","r","e"," ","a","t"," ","1","2"," ","t","o"," ","b","a","l","a","n","c","e"," ","s","c","o","r","i","n","g",".">>
UrlCapNote == <<"C","a","p","p","e","d"," ","U","R","L"," ","s","c","o","r","e"," ","a","t"," ","1","2"," ","t","o"," ","b","a","l","a","n","c","e"," ","s","c","o","r","i","n","g",".">>

\* Mutant: the score is capped without a note
Capped_NoNote(score, lines, note) ==
    IF score > ScoreCap THEN [score |-> ScoreCap, lines |-> lines]
    ELSE [score |-> score, lines |-> lines]

\* if score > 12: append the note, score = 12
Capped(score, lines, note) ==
    IF score > ScoreCap THEN [score |-> ScoreCap, lines |-> Append(lines, note)]
    ELSE [score |-> score, lines |-> lines]

\* subj.count(kw), bod[:200].count(kw), bod[200:].count(kw)
KwCounts(subj, bod, kw) ==
    [subj_count |-> StrCount(subj, kw),
     first_body_count |-> StrCount(SubSeq(bod, 1, Min2(200, Len(bod))), kw),
     rest_body_count |-> StrCount(Suffix(bod, Min2(200, Len(bod))), kw)]

kw_score(c) == c.subj_count * 3 + c.first_body_count * 2 + c.rest_body_count * 1

KeywordLine(kw, c) ==
    <<"K","e","y","w","o","r","d"," ","'">> \o kw \o <<"'"," ","-"," ","s","u","b","j","e","c","t",":">> \o IntStr(c.subj_count)
    \o <<","," ","e","a","r","l","y","-","b","o","d","y",":">> \o IntStr(c.first_body_count)
    \o <<","," ","r","e","s","t",":">> \o IntStr(c.rest_body_count)
    \o <<","," ","s","c","o","r","e",":","+">> \o IntStr(kw_score(c))

\* One pass of `for kw in SUSPICIOUS_KEYWORDS`, r being what the later passes add
KeywordPass(kw, c, r) ==
    IF kw_score(c) > 0
    THEN [score |-> kw_score(c) + r.score, lines |-> <<KeywordLine(kw, c)>> \o r.lines,
          per |-> <<kw_score(c)>> \o r.per]
    ELSE [score |-> r.score, lines |-> r.lines, per |-> <<0>> \o r.per]

RECURSIVE KeywordPositionLoop(_, _, _)
KeywordPositionLoop(subj, bod, keywords) ==
    IF keywords = <<>> THEN [score |-> 0, lines |-> <<>>, per |-> <<>>]
    ELSE KeywordPass(Head(keywords), KwCounts(subj, bod, Head(keywords)),
                     KeywordPositionLoop(subj, bod, Tail(keywords)))

\* The tuple a rule returns; uncapped and per are the loop's sum and the
\* kw_score of every keyword, kept for inspection
RuleResult(loop, capped, empty_text) ==
    [score |-> capped.score,
     details |-> IF capped.lines # <<>> THEN JoinLines(capped.lines) ELSE empty_text,
     uncapped |-> loop.score,
     per |-> loop.per]

KeywordResult(loop) ==
    RuleResult(loop, Capped(loop.score, loop.lines, KeywordCapNote),
               <<"N","o"," ","s","u","s","p","i","c","i","o","u","s"," ","k","e","y","w","o","r","d","s"," ","f","o","u","n","d",".">>)

\* keyword_position_score(subject, body)
keyword_position_score(subject_, body_, keywords) ==
    KeywordResult(KeywordPositionLoop(Lower(subject_), Lower(body_), keywords))

\* for brand in KNOWN_BRAND_NAMES: the first brand the URL mentions while its
\* host does not end with brand + ".com"; 0 when there is none
MismatchedBrand(u, host, brands) ==
    IF \E i \in 1..Len(brands) : Contains(Lower(u), brands[i]) /\ ~EndsWith(host, brands[i] \o DotCom)
    THEN CHOOSE i \in 1..Len(brands) :
            /\ Contains(Lower(u), brands[i]) /\ ~EndsWith(host, brands[i] \o DotCom)
            /\ \A j \in 1..(i - 1) : ~(Contains(Lower(u), brands[j]) /\ ~EndsWith(host, brands[j] \o DotCom))
    ELSE 0

IpLine(u, host) ==
    <<"U","R","L"," ","'">> \o u \o <<"'"," ","u","s","e","s"," ","I","P"," ","a","d","d","r","e","s","s"," ","h","o","s","t"," ","'">> \o host \o <<"'"," ","(","+","5",")">>

BrandLine(u, host, brand) ==
    <<"U","R","L"," ","'">> \o u \o <<"'"," ","m","e","n","t","i","o","n","s"," ","'">> \o brand \o <<"'"," ","b","u","t"," ","h","o","s","t"," ","'">> \o host
    \o <<"'"," ","d","o","e","s"," ","n","o","t"," ","e","n","d"," ","w","i","t","h"," ">> \o brand \o <<".","c","o","m"," ","(","+","4",")">>

SenderLine(host, sender_domain) ==
    <<"U","R","L"," ","h","o","s","t"," ","'">> \o host \o <<"'"," ","d","o","e","s"," ","n","o","t"," ","m","a","t","c","h"," ","s","e","n","d","e","r"," ","d","o","m","a","i","n"," ","'">> \o sender_domain \o <<"'"," ","(","+","3",")">>

\* One pass of `for u in urls`: the detail lines it appends
UrlDetectionLines(u, host, sender_domain, brands) ==
    IF is_ipv4_address(host) THEN <<IpLine(u, host)>>
    ELSE (IF MismatchedBrand(u, host, brands) # 0
          THEN <<BrandLine(u, host, brands[MismatchedBrand(u, host, brands)])>> ELSE <<>>)
         \o (IF sender_domain # <<>> /\ ~EndsWith(host, sender_domain)
             THEN <<SenderLine(host, sender_domain)>> ELSE <<>>)

RECURSIVE UrlDetailLoop(_, _, _)
UrlDetailLoop(urls, sender_domain, brands) ==
    IF urls = <<>> THEN <<>>
    ELSE UrlDetectionLines(Head(urls), extract_domain_from_url(Head(urls)), sender_domain, brands)
         \o UrlDetailLoop(Tail(urls), sender_domain, brands)

UrlResult(loop) ==
    [score |-> Capped(loop.score, loop.lines, UrlCapNote).score,
     details |-> JoinLines(Capped(loop.score, loop.lines, UrlCapNote).lines),
     uncapped |-> loop.score,
     per |-> <<>>]

\* suspicious_url_detection(text, sender_email) with its details
suspicious_url_details(text, sender_email, brands) ==
    IF utils_extract_urls(text) = <<>>
    THEN [score |-> 0, details |-> <<"N","o"," ","U","R","L","s"," ","f","o","u","n","d",".">>, uncapped |-> 0, per |-> <<>>]
    ELSE UrlResult([score |-> UrlDetectionLoop(utils_extract_urls(text), utils_extract_domain(sender_email), brands),
                    lines |-> UrlDetailLoop(utils_extract_urls(text), utils_extract_domain(sender_email), brands)])

----------------------------------------------------------------------------
(* The two scores on generated emails. CONFIG holds the three lists of       *)
(* phish-detector/rules.py.                                                  *)

ScoreSenders == {<<>>,
     <<"u","s","e","r","@","g","m","a","i","l",".","c","o","m">>,
     <<"b","o","b","@","e","v","i","l",".","o","r","g">>}

ScoreSubjects ==
    {<<>>,
     <<"U","r","g","e","n","t">>,
     <<"u","r","g","e","n","t"," ","u","r","g","e","n","t">>,
     <<"u","r","g","e","n","t"," ","v","e","r","i","f","y"," ","a","c","c","o","u","n","t"," ","c","l","i","c","k">>,
     <<"U","r","g","e","n","t",":"," ","v","e","r","i","f","y"," ","a","c","c","o","u","n","t",","," ","c","l","i","c","k",","," ","p","a","s","s","w","o","r","d">>}

\* Fillers that put a keyword inside, across and after the first 200 characters
ScorePads == {0, 200 - 6, 200 - 3, 200}
ScoreWords == {<<>>,
     <<"u","r","g","e","n","t">>,
     <<"U","r","g","e","n","t"," ","u","r","g","e","n","t">>,
     <<"c","l","i","c","k"," ","t","o"," ","v","e","r","i","f","y">>}
ScoreLinks ==
    {<<"h","t","t","p",":","/","/","e","v","i","l",".","o","r","g","/","a"," ","h","t","t","p",":","/","/","e","v","i","l",".","o","r","g","/","b"," ","h","t","t","p",":","/","/","e","v","i","l",".","o","r","g","/","c"," ","h","t","t","p",":","/","/","e","v","i","l",".","o","r","g","/","d">>,
     <<"h","t","t","p","s",":","/","/","e","v","i","l",".","o","r","g","/","p","a","y","p","a","l","\n","h","t","t","p","s",":","/","/","e","v","i","l",".","o","r","g","/","P","a","y","P","a","l">>,
     <<"s","e","e"," ","h","t","t","p",":","/","/","1",".","2",".","3",".","4","/","x"," ","a","n","d"," ","h","t","t","p",":","/","/","1","0",".","0",".","0",".","1"," ","(","h","t","t","p",":","/","/","e","v","i","l",".","o","r","g","/","n","e","t","f","l","i","x",")">>,
     <<"h","t","t","p",":","/","/","p","a","y","p","a","l",".","c","o","m","/","l","o","g","i","n">>}
ScoreBodies == {Pad(n) \o w : n \in ScorePads, w \in ScoreWords} \cup ScoreLinks

InitScore ==
    /\ CONFIG = PDLists
    /\ sender \in ScoreSenders
    /\ subject \in ScoreSubjects
    /\ body \in ScoreBodies
    /\ op = "none"
    /\ ret = [score |-> 0, details |-> <<>>, uncapped |-> 0, per |-> <<>>]
    /\ LEGIT_DOMAINS = {}
    /\ SUS_KEYWORDS = {}
    /\ file = NoFile

\* keyword_position_score(subject, body)
KeywordPositionCall ==
    /\ op = "none"
    /\ op' = "keyword_position_score"
    /\ ret' = keyword_position_score(subject, body, CONFIG.SUSPICIOUS_KEYWORDS)
    /\ UNCHANGED <<LEGIT_DOMAINS, SUS_KEYWORDS, file, sender, subject, body, CONFIG>>

\* suspicious_url_detection(subject + "\n" + body, sender_email), as run_all_rules calls it
UrlDetailsCall ==
    /\ op = "none"
    /\ op' = "suspicious_url_detection"
    /\ ret' = suspicious_url_details(subject \o <<"\n">> \o body, sender, CONFIG.KNOWN_BRAND_NAMES)
    /\ UNCHANGED <<LEGIT_DOMAINS, SUS_KEYWORDS, file, sender, subject, body, CONFIG>>

NextScore == \/ KeywordPositionCall
             \/ UrlDetailsCall

SpecScore == InitScore /\ [][NextScore]_vars

----------------------------------------------------------------------------
(* phish-detector-version2/config.py: the configuration newrules.py reads.   *)
(* A file's lists hold plain strings; CONFIG holds Python values.            *)

T_newsletter == <<"n","e","w","s","l","e","t","t","e","r">>

\* config.DEFAULT_CONFIGURATION as config.json holds it
ConfigDefaults ==
    [legit_domains |-> <<D_sg, D_paypal, D_google>>,
     keywords |-> <<K_urgent, K_verify, K_account, K_password, K_click>>,
     safe_terms |-> <<T_newsletter>>,
     thresholds |-> DefaultThresholds]

\* [(_safe_str(x)).lower() for x in items]: nothing is stripped or dropped
LoweredList(items) == StrList([i \in 1..Len(items) |-> Lower(items[i])])

\* The strings of a Python list of str
Strings(list) == [i \in 1..Len(list.v) |-> list.v[i].v]

\* sorted(items) for a list of strings: entries that occur twice stay twice
RECURSIVE InsertSorted(_, _)
InsertSorted(x, sorted) ==
    IF sorted = <<>> THEN <<x>>
    ELSE IF StrLess(x, Head(sorted)) THEN <<x>> \o sorted
    ELSE <<Head(sorted)>> \o InsertSorted(x, Tail(sorted))

RECURSIVE SortedList(_)
SortedList(items) ==
    IF items = <<>> THEN <<>> ELSE InsertSorted(Head(items), SortedList(Tail(items)))

\* config.load_config_to_rules() on a file whose list entries are strings: the
\* dict bound to config.CONFIG, the file and the legacy sets afterwards
config_load_config_to_rules(f) ==
    LET cfg0 == IF f.kind = "json" THEN f.cfg ELSE ConfigDefaults
        f0 == IF f.kind = "absent" THEN persist(cfg0) ELSE f
        migrate == "legit_domains" \notin DOMAIN cfg0
        cfg1 == IF migrate
                THEN Pop(Pop(Put(cfg0, "legit_domains",
                                 Sorted(Elems(Get(cfg0, "whitelist")) \cup Elems(Get(cfg0, "brands")))),
                             "whitelist"), "brands")
                ELSE cfg0
        f1 == IF migrate THEN persist(cfg1) ELSE f0
        thresholds == IF "thresholds" \in DOMAIN cfg1 THEN cfg1["thresholds"] ELSE EmptyDict
    IN [CONFIG |-> PyDict([legit_domains |-> LoweredList(Get(cfg1, "legit_domains")),
                           keywords |-> LoweredList(Get(cfg1, "keywords")),
                           safe_terms |-> LoweredList(Get(cfg1, "safe_terms")),
                           thresholds |-> thresholds]),
        file |-> f1,
        sets |-> apply_cfg(cfg1)]

\* config.save_rules_to_config(): what the file holds afterwards, written from
\* the dict config.CONFIG is bound to
config_save_rules_to_config(C) ==
    persist([legit_domains |-> SortedList(Strings(DictGet(C, "legit_domains", PyList(<<>>)))),
             keywords |-> SortedList(Strings(DictGet(C, "keywords", PyList(<<>>)))),
             safe_terms |-> SortedList(Strings(DictGet(C, "safe_terms", PyList(<<>>)))),
             thresholds |-> DictGet(C, "thresholds", EmptyDict)])

\* config.reset_to_defaults(): the legacy sets and the file; CONFIG is not assigned
config_reset_to_defaults ==
    [sets |-> apply_cfg(ConfigDefaults), file |-> persist(ConfigDefaults)]

----------------------------------------------------------------------------
(* phish-detector-version2/app.py over config.py and newrules.py. Streamlit  *)
(* runs app.py again for every interaction while the imported modules stay.  *)
(* newrules took its CONFIG with `from config import CONFIG` when it was     *)
(* imported; app.py takes it again in every run. CONFIG.config is the dict   *)
(* config.CONFIG is bound to, CONFIG.newrules the dict newrules.CONFIG is    *)
(* bound to. LEGIT_DOMAINS and SUS_KEYWORDS are the legacy sets of config.py.*)

T_digest == <<"d","i","g","e","s","t">>

\* Most entries the three lists are driven to hold together
MaxEntries == 11

AppMessyFile == persist([legit_domains |-> <<<<" ","P","a","y","P","a","l",".","c","o","m"," ">>, <<>>, D_google>>,
                         keywords |-> <<<<>>, <<"U","r","g","e","n","t"," ">>, K_verify, K_account>>,
                         safe_terms |-> <<<<" ">>, T_newsletter>>])
AppFiles == {NoFile, persist(ConfigDefaults), AppMessyFile}

AppDomInputs == {<<>>, <<"l","o","c","a","l","h","o","s","t">>, <<" ","P","a","y","P","a","1",".","c","o","m"," ">>}
AppKwInputs == {<<" ">>, <<"F","r","e","e"," ">>}
AppSafeInputs == {<<"D","i","g","e","s","t">>}
AppRemovable == {D_paypa1, K_free, T_digest}

AppSenders == {<<"u","@","p","a","y","p","a","1",".","c","o","m">>, <<"u","@","p","a","y","p","a","l",".","c","o","m">>, <<"n","o","b","o","d","y">>}
AppSubjects == {<<"F","r","e","e"," ","d","i","g","e","s","t">>}
AppBodies == {<<"p","l","a","i","n"," ","t","e","x","t">>, <<"c","l","i","c","k"," ","h","t","t","p",":","/","/","p","a","y","p","a","1",".","c","o","m"," ","n","o","w">>}

SettingsOps == {"add domain", "remove domains", "add keyword", "remove keywords",
                "add safe term", "remove safe terms"}

\* The list CONFIG[key] of app.py: in every run after the first, app.py's
\* CONFIG is the dict config.CONFIG is bound to
AppList(key) == Strings(DictGet(CONFIG.config, key, PyList(<<>>)))

CountOf(x, list) == Cardinality({i \in 1..Len(list) : list[i] = x})

\* list.remove(x): the first occurrence goes
RemoveFirst(list, x) ==
    LET i == CHOOSE k \in 1..Len(list) : list[k] = x /\ \A j \in 1..(k - 1) : list[j] # x
    IN SubSeq(list, 1, i - 1) \o SubSeq(list, i + 1, Len(list))

\* for d in to_remove: list.remove(d)
RECURSIVE RemoveEach(_, _)
RemoveEach(list, to_remove) ==
    IF to_remove = <<>> THEN list
    ELSE RemoveEach(RemoveFirst(list, Head(to_remove)), Tail(to_remove))

\* What the multiselect can return: nothing, or one entry of the list
Selections(list) == {<<>>} \cup {<<x>> : x \in Elems(list) \cap AppRemovable}

\* Module import in the first run: config.py loads config.json and newrules
\* binds the dict it finds
Imported(r) ==
    /\ CONFIG = [config |-> r.CONFIG, newrules |-> r.CONFIG]
    /\ LEGIT_DOMAINS = r.sets.legit
    /\ SUS_KEYWORDS = r.sets.keywords
    /\ file = r.file
    /\ op = "import"
    /\ sender = <<>>
    /\ subject = <<>>
    /\ body = <<>>
    /\ ret = [arg |-> <<>>]

InitApp == \E f \in AppFiles : Imported(config_load_config_to_rules(f))

\* load_config_to_rules() binds config.CONFIG to a new dict; the dict newrules
\* is bound to stays
Loaded(r) ==
    /\ CONFIG' = [config |-> r.CONFIG, newrules |-> CONFIG.newrules]
    /\ LEGIT_DOMAINS' = r.sets.legit
    /\ SUS_KEYWORDS' = r.sets.keywords
    /\ file' = r.file
    /\ op' = "load_config_to_rules"
    /\ ret' = [arg |-> <<>>]
    /\ UNCHANGED <<sender, subject, body>>

\* First run of a session
SessionStart == Loaded(config_load_config_to_rules(file))

Entries == Len(AppList("legit_domains")) + Len(AppList("keywords")) + Len(AppList("safe_terms"))

\* CONFIG[key] of app.py becomes items, then save_rules_to_config()
Saved(name, C, arg) ==
    /\ CONFIG' = [config |-> C, newrules |-> CONFIG.newrules]
    /\ file' = config_save_rules_to_config(C)
    /\ op' = name
    /\ ret' = [arg |-> arg]
    /\ UNCHANGED <<LEGIT_DOMAINS, SUS_KEYWORDS, sender, subject, body>>

SetAndSave(name, key, items, arg) ==
    Saved(name, PyDict([CONFIG.config.v EXCEPT ![key] = StrList(items)]), arg)

\* st.error(...), or a button that finds nothing to add
Rejected(name) ==
    /\ op' = name
    /\ ret' = [arg |-> <<>>]
    /\ UNCHANGED <<LEGIT_DOMAINS, SUS_KEYWORDS, file, sender, subject, body, CONFIG>>

\* Settings: "Add domain"
AddDomainSetting ==
    /\ op # "import"
    /\ \E new_dom \in AppDomInputs :
          LET cleaned == Strip(new_dom)
          IN IF cleaned = <<>> \/ ~Contains(cleaned, <<".">>)
             THEN Rejected("add domain rejected")
             ELSE /\ Entries < MaxEntries
                  /\ SetAndSave("add domain", "legit_domains",
                                Append(AppList("legit_domains"), Lower(cleaned)), <<Lower(cleaned)>>)

\* Settings: "Remove domain(s)"
RemoveDomainsSetting ==
    /\ op # "import"
    /\ AppList("legit_domains") # <<>>
    /\ \E to_remove \in Selections(AppList("legit_domains")) :
          SetAndSave("remove domains", "legit_domains",
                     RemoveEach(AppList("legit_domains"), to_remove), to_remove)

\* Settings: "Add keyword"
AddKeywordSetting ==
    /\ op # "import"
    /\ \E new_kw \in AppKwInputs :
          IF Strip(new_kw) = <<>>
          THEN Rejected("add keyword rejected")
          ELSE /\ Entries < MaxEntries
               /\ SetAndSave("add keyword", "keywords",
                             Append(AppList("keywords"), Lower(Strip(new_kw))), <<Lower(Strip(new_kw))>>)

\* Settings: "Remove keyword(s)"
RemoveKeywordsSetting ==
    /\ op # "import"
    /\ AppList("keywords") # <<>>
    /\ \E to_remove_k \in Selections(AppList("keywords")) :
          SetAndSave("remove keywords", "keywords",
                     RemoveEach(AppList("keywords"), to_remove_k), to_remove_k)

\* Settings: "Add safe term"
AddSafeTermSetting ==
    /\ op # "import"
    /\ \E new_safe \in AppSafeInputs :
          IF Strip(new_safe) = <<>>
          THEN Rejected("add safe term rejected")
          ELSE /\ Entries < MaxEntries
               /\ SetAndSave("add safe term", "safe_terms",
                             Append(AppList("safe_terms"), Lower(Strip(new_safe))), <<Lower(Strip(new_safe))>>)

\* Settings: "Remove safe term(s)"
RemoveSafeTermsSetting ==
    /\ op # "import"
    /\ AppList("safe_terms") # <<>>
    /\ \E to_remove_s \in Selections(AppList("safe_terms")) :
          SetAndSave("remove safe terms", "safe_terms",
                     RemoveEach(AppList("safe_terms"), to_remove_s), to_remove_s)

\* reset_to_defaults() assigns the legacy sets and the file
ResetTo(r) ==
    /\ LEGIT_DOMAINS' = r.sets.legit
    /\ SUS_KEYWORDS' = r.sets.keywords
    /\ file' = r.file
    /\ op' = "reset_to_defaults"
    /\ ret' = [arg |-> <<>>]
    /\ UNCHANGED <<sender, subject, body, CONFIG>>

\* Settings: "Reset to defaults"
ResetSetting == op # "import" /\ ResetTo(config_reset_to_defaults)

\* valid_email(email)
valid_email(email) == Contains(email, <<"@">>) /\ Contains(email, <<".">>)

\* The score breakdown of the Analyze tab: w_score + k_score + e_score
BreakdownOf(w, k, e) ==
    IF w.exc \/ k.exc \/ e.exc THEN [raised |-> TRUE, is_whitelisted |-> FALSE, total |-> 0]
    ELSE [raised |-> FALSE, is_whitelisted |-> w.val.whitelisted,
          total |-> w.val.score + k.val + e.val]

ScoreBreakdown(C, sndr, text_l) ==
    BreakdownOf(nr_whitelist_check(C, PyStr(sndr), text_l), nr_keyword_check(C, text_l),
                nr_edit_distance_check(C, text_l))

\* What the Analyze tab shows
Shown(sndr, subj, bod, c, b) ==
    [sender |-> sndr, subject |-> subj, body |-> bod, label |-> c.label, score |-> c.score,
     raised |-> b.raised, is_whitelisted |-> b.is_whitelisted, total |-> b.total]

\* "Analyze": the classifier and the breakdown read the dict newrules is bound to
Analyze ==
    /\ op # "import"
    /\ \E sndr \in AppSenders, subj \in AppSubjects, bod \in AppBodies :
          IF ~valid_email(sndr)
          THEN /\ op' = "analyze rejected"
               /\ ret' = [arg |-> <<>>]
          ELSE /\ op' = "analyze"
               /\ ret' = Shown(sndr, subj, bod,
                               nr_classify_email(CONFIG.newrules, PyStr(sndr), PyStr(subj), PyStr(bod)),
                               ScoreBreakdown(CONFIG.newrules, sndr, Lower(subj \o <<"\n">> \o bod)))
    /\ UNCHANGED <<LEGIT_DOMAINS, SUS_KEYWORDS, file, sender, subject, body, CONFIG>>

NextApp == \/ SessionStart
           \/ AddDomainSetting
           \/ RemoveDomainsSetting
           \/ AddKeywordSetting
           \/ RemoveKeywordsSetting
           \/ AddSafeTermSetting
           \/ RemoveSafeTermsSetting
           \/ ResetSetting
           \/ Analyze

SpecApp == InitApp /\ [][NextApp]_vars

----------------------------------------------------------------------------
(* Notions the claims are stated with, defined apart from the code's helpers *)

\* k is a substring of t
HasSub(t, k) == \E i \in 1..(Len(t) - Len(k) + 1) : \A j \in 1..Len(k) : t[i + j - 1] = k[j]

\* The text after the last "@" of an address, empty when it has none
AfterLastAt(s) ==
    LET ats == {i \in 1..Len(s) : s[i] = "@"}
    IN IF ats = {} THEN <<>>
       ELSE LET last == CHOOSE i \in ats : \A j \in ats : j <= i
            IN [n \in 1..(Len(s) - last) |-> s[last + n]]

\* The authority of an http(s) URL: what lies between "//" and the first "/", "?" or "#"
Authority(url) ==
    LET start == IF url[5] = "s" THEN 9 ELSE 8
        stops == {i \in start..Len(url) : url[i] \in {"/", "?", "#"}}
        end == IF stops = {} THEN Len(url) + 1 ELSE CHOOSE i \in stops : \A j \in stops : i <= j
    IN [n \in 1..(end - start) |-> url[start + n - 1]]

\* The host of an http(s) URL: its authority without userinfo and port, lowercased
HostOf(url) ==
    LET hostport == AfterLastAt(Authority(url))
        hp == IF hostport = <<>> /\ ~HasSub(Authority(url), <<"@">>) THEN Authority(url) ELSE hostport
        colons == {i \in 1..Len(hp) : hp[i] = ":"}
        end == IF colons = {} THEN Len(hp) + 1 ELSE CHOOSE i \in colons : \A j \in colons : i <= j
    IN Lower([n \in 1..(end - 1) |-> hp[n]])

\* A legit domain occurs in the lowercased subject or body
LegitMentioned == \E d \in LEGIT_DOMAINS : HasSub(Lower(subject \o <<"\n">> \o body), d)

----------------------------------------------------------------------------
(* Claims *)

\* C1: classify_email labels an email "Phishing" exactly when its total score
\* is at least 10, and "Safe" otherwise; a total of exactly 10 is Phishing.
C1_PhishingIffAtLeastTen ==
    op = "classify_email" =>
        /\ ret.score = ret.w + ret.k + ret.e + ret.u
        /\ ret.label = (IF ret.score >= 10 THEN "Phishing" ELSE "Safe")

\* C2: whenever the sender's domain is a member of LEGIT_DOMAINS, classify_email
\* returns the label "Safe", whatever the subject and the body contain.
C2_LegitSenderIsSafe ==
    (op = "classify_email" /\ Lower(AfterLastAt(sender)) \in LEGIT_DOMAINS) => ret.label = "Safe"

\* C3: newrules.classify_email never raises: for every sender, subject and body
\* (None and bytes included) and every content of CONFIG it returns a pair whose
\* label is "Phishing" or "Ham", and whenever a step of its body raises it returns
\* ("Ham", -999.0).
C3_NeverRaises ==
    op = "nr_classify_email" =>
       /\ ~ret.raised
       /\ ret.label \in {"Phishing", "Ham"}
       /\ (CONFIG.t # "dict" \/ ClassifyTry(CONFIG, sender, subject, body).exc)
             => (ret.label = "Ham" /\ ret.score = -9990)

\* A call with a bytes subject and no body, under a CONFIG that is no dict, has
\* returned the fallback
C3_Witness ==
    /\ op = "nr_classify_email"
    /\ CONFIG = PyNone
    /\ subject.t = "bytes"
    /\ body = PyNone
    /\ ret = [raised |-> FALSE, label |-> "Ham", score |-> -9990]

\* C4: whitelist_check returns 0 if the lowercased text after the last "@" of the
\* sender is in LEGIT_DOMAINS and 2 otherwise (also without "@" or with nothing
\* after it), and changing the letter case of the sender does not change the result.
C4_WhitelistCheck ==
    op = "whitelist_check" =>
        /\ ret.score = (IF Lower(AfterLastAt(sender)) \in LEGIT_DOMAINS THEN 0 ELSE 2)
        /\ whitelist_check(Upper(sender)) = ret.score
        /\ whitelist_check(Lower(sender)) = ret.score

\* C4 witness: a sender written with capitals whose domain is legit got 0
C4_Witness ==
    /\ op = "whitelist_check"
    /\ sender # Lower(sender)
    /\ HasSub(sender, <<"@">>)
    /\ ret.score = 0

\* C5: newrules.whitelist_check reports a sender as whitelisted only if the
\* domain extracted from the sender equals a configured legit domain or ends
\* with "." followed by one; a legit domain as a mere string suffix is not enough.
C5_WhitelistedOnlyExactOrSubdomain ==
    (op = "nr_whitelist_check" /\ ~ret.raised /\ ret.whitelisted) =>
        LET dom == extract_domain(sender)
            legit == CONFIG.v.legit_domains.v
        IN \E i \in 1..Len(legit) :
              /\ legit[i].t = "str"
              /\ dom = legit[i].v \/ EndsWith(dom, <<".">> \o legit[i].v)

\* C6: under every rule configuration the settings can produce, an email with
\* an empty subject, an empty body and a sender without "@" (or with nothing after
\* it) scores exactly 2, the whitelist-miss penalty alone, and is labelled "Safe".
C6_EmptyEmailScoresTwo ==
    (op = "classify_email" /\ subject = <<>> /\ body = <<>> /\ AfterLastAt(sender) = <<>>) =>
        /\ ret.score = 2
        /\ ret.w = 2 /\ ret.k = 0 /\ ret.e = 0 /\ ret.u = 0
        /\ ret.label = "Safe"

\* C6 witness: such an email was classified after config.json held empty and
\* blank entries
C6_Witness ==
    /\ op = "classify_email"
    /\ subject = <<>> /\ body = <<>>
    /\ sender = <<"u","@">>
    /\ LEGIT_DOMAINS = {D_paypal}
    /\ ret.score = 2

\* What C7 says one keyword adds
C7_KeywordAdds(k) ==
    (IF HasSub(Lower(subject), k) THEN 3 ELSE 0)
    + (IF HasSub(Lower(body), k) THEN 1 ELSE 0)
    + (IF HasSub(Lower([i \in 1..Min2(200, Len(body)) |-> body[i]]), k) THEN 2 ELSE 0)

RECURSIVE C7_Sum(_)
C7_Sum(kws) == IF kws = {} THEN 0
               ELSE LET k == CHOOSE x \in kws : TRUE IN C7_KeywordAdds(k) + C7_Sum(kws \ {k})

\* C7: keyword_check is the sum over the keywords of 3 if the keyword is in the
\* lowercased subject, plus 1 if it is in the lowercased body, plus 2 if it is in
\* the first 200 characters of the lowercased body; occurrences are not counted,
\* and an empty keyword set or empty texts give 0.
C7_KeywordCheck ==
    op = "keyword_check" =>
        /\ ret.score = C7_Sum(SUS_KEYWORDS)
        /\ (SUS_KEYWORDS = {} \/ (subject = <<>> /\ body = <<>>)) => ret.score = 0

\* C7 witness: "urgent" found only after position 200 of the body added 1
C7_Witness ==
    /\ op = "keyword_check"
    /\ subject = <<>>
    /\ body = Pad(200) \o K_urgent
    /\ K_urgent \in SUS_KEYWORDS
    /\ ret.score = 1

\* C8: for every domain d of LEGIT_DOMAINS, edit_distance_check("user@" + d) is 0.
C8_ExactMatchNoPenalty ==
    \A d \in LEGIT_DOMAINS : edit_distance_check(<<"u","s","e","r","@">> \o d) = 0

\* The URL is one C9 speaks of: its host is a legit domain or a subdomain of one,
\* is no IP literal, and its authority has no user@ part
C9_LegitUrl(url) ==
    /\ \E d \in LEGIT_DOMAINS : HostOf(url) = d \/ EndsWith(HostOf(url), <<".">> \o d)
    /\ ~is_ip_literal(HostOf(url))
    /\ ~HasSub(Authority(url), <<"@">>)

\* C9: suspicious_url_check returns 0 whenever every URL of the body is such a
\* URL, whatever other legit domains the subject or the body mention or link to.
C9_LegitUrlsScoreZero ==
    (op = "suspicious_url_check"
       /\ \A i \in 1..Len(extract_urls(body)) : C9_LegitUrl(extract_urls(body)[i]))
    => ret.score = 0

\* C10: suspicious_url_check returns 0 for a body without http(s) URL; when no
\* legit domain occurs in subject or body, it returns exactly 5 for a body whose
\* only URL has an IPv4-literal host and no "@" in its authority, and exactly 3
\* for one whose only URL has user@ before a host that is no IP literal.
C10_UrlScores ==
    op = "suspicious_url_check" =>
        LET urls == extract_urls(body)
        IN /\ urls = <<>> => ret.score = 0
           /\ (~LegitMentioned /\ Len(urls) = 1 /\ is_ip_literal(HostOf(urls[1]))
                 /\ ~HasSub(Authority(urls[1]), <<"@">>)) => ret.score = 5
           /\ (~LegitMentioned /\ Len(urls) = 1 /\ ~is_ip_literal(HostOf(urls[1]))
                 /\ HasSub(Authority(urls[1]), <<"@">>)) => ret.score = 3

\* Four runs of digits separated by dots
C11_IsIPv4(h) ==
    \E i, j, k \in 1..Len(h) :
       /\ 1 < i /\ i + 1 < j /\ j + 1 < k /\ k < Len(h)
       /\ \A n \in 1..Len(h) : IF n \in {i, j, k} THEN h[n] = "." ELSE h[n] \in Digits

\* The rule sets are the defaults, the sender's domain is no legit domain but
\* within edit distance 1..2 of one, and the body holds an http URL whose host
\* is an IPv4 literal
C11_Case ==
    /\ op = "classify_email"
    /\ LEGIT_DOMAINS = {D_sg, D_paypal, D_google}
    /\ SUS_KEYWORDS = {K_urgent, K_verify, K_account, K_password, K_click}
    /\ Lower(AfterLastAt(sender)) \notin LEGIT_DOMAINS
    /\ \E d \in LEGIT_DOMAINS : levenshtein_distance(Lower(AfterLastAt(sender)), d) \in 1..2
    /\ \E i \in 1..Len(extract_urls(body)) : C11_IsIPv4(HostOf(extract_urls(body)[i]))

\* C11: with the default rule sets every such email is labelled "Phishing" with
\* a total above the threshold, for any subject, and the whitelist miss, the
\* lookalike rule and the URL rule each add a positive amount, as does the
\* keyword rule when the subject holds keywords.
C11_LookalikeWithIpUrlIsPhishing ==
    C11_Case =>
       /\ ret.label = "Phishing"
       /\ ret.score > PhishThreshold
       /\ ret.w > 0 /\ ret.e > 0 /\ ret.u > 0
       /\ (\E kw \in SUS_KEYWORDS : HasSub(Lower(subject), kw)) => ret.k > 0

\* C12: levenshtein_distance (of rules.py and of utils.py) is a metric on the
\* strings a, b, c: the distance from a to a is 0, the distance from a to b is
\* that from b to a, it is 0 only if a = b, and the distance from a to c is at
\* most the distance from a to b plus that from b to c.
C12_Metric ==
    op \in {"levenshtein_distance", "utils.levenshtein_distance"} =>
       /\ ret.aa = 0
       /\ ret.ab = ret.ba
       /\ ret.ab = 0 => sender = subject
       /\ ret.ac <= ret.ab + ret.bc

\* Three different strings of different lengths, the first longer than the
\* second, for which the triangle inequality is an equality
C12_Witness ==
    /\ op = "utils.levenshtein_distance"
    /\ Len(sender) > Len(subject) /\ Len(subject) > Len(body)
    /\ ret.ab > 0 /\ ret.bc > 0
    /\ ret.ac = ret.ab + ret.bc

\* C13: classify_email of rules.py, and likewise of newrules.py, called twice on
\* the same sender, subject and body with no configuration operation in between,
\* returns the same (label, score) both times, whatever the iteration orders of
\* the rule sets are in the two calls.
C13_Deterministic ==
    op \in {"classify_email second", "nr_classify_email second"} =>
       /\ ret.second.label = ret.first.label
       /\ ret.second.score = ret.first.score

\* Two calls that iterated three legit domains in different orders, where the
\* lookalike rule and the claimed-domain rule both scored
C13_Witness ==
    /\ op = "classify_email second"
    /\ Cardinality(LEGIT_DOMAINS) = 3
    /\ ret.order # ret.again
    /\ ret.first.e = 5
    /\ ret.first.u >= 4
    /\ ret.first.k > 0

\* What classify_email returns for the current arguments when the rule sets
\* are legit and keywords from its first statement to its last
C14_ScoreUnder(legit, keywords) ==
    LET domain == Lower(AfterLastAt(sender))
        b == Lower(body)
        sj == Lower(subject)
        early == IF Len(b) <= EarlyChars THEN b ELSE SubSeq(b, 1, EarlyChars)
        text == sj \o <<"\n">> \o b
        claimed == SelectSeq(Sorted(legit), LAMBDA d : HasSub(text, d))
        urls == extract_urls(body)
    IN (IF domain \in legit THEN 0 ELSE 2)
       + KeywordLoopIn(Sorted(keywords), sj, b, early)
       + (IF domain = <<>> THEN 0 ELSE EditLoopIn(domain, Sorted(legit)))
       + (IF urls = <<>> THEN 0 ELSE UrlLoopIn(urls, claimed))

\* C14: when a reload or a reset runs concurrently with a classification, the
\* classification scores against the complete old rule sets or the complete
\* new ones, never against emptied or partly refilled sets.
C14_OldOrNewRuleSet ==
    op.reader = "done" =>
       LET new == IF op.writer = "idle" THEN ret.old ELSE apply_cfg(op.cfg)
       IN ret.score \in {C14_ScoreUnder(ret.old.legit, ret.old.keywords),
                         C14_ScoreUnder(new.legit, new.keywords)}

\* The rule sets hold the normalized defaults
C15_Defaults ==
    /\ LEGIT_DOMAINS = {D_sg, D_paypal, D_google}
    /\ SUS_KEYWORDS = {K_urgent, K_verify, K_account, K_password, K_click}

\* config.json held something unreadable or corrupt: not readable as JSON,
\* JSON that is no object, or a rule list with an entry that is no string
C15_Corrupt(f) ==
    \/ f.kind \in {"corrupt", "nonobject"}
    \/ /\ f.kind = "json"
       /\ \E key \in DOMAIN f.cfg : \E i \in 1..Len(f.cfg[key]) : f.cfg[key][i] = JsonNumber

\* C15: load_config_to_rules never raises, and whenever the stored
\* configuration is unreadable or corrupt it leaves the rule sets at the
\* defaults.
C15_LoadNeverRaises ==
    op = "load_config_to_rules first" =>
       /\ ~ret.raised
       /\ C15_Corrupt(ret.read) => C15_Defaults

C18_ExtractDomain ==
    op = "extract_domain" => ret.domain = Strip(Lower(AfterLastAt(sender)))

\* Four runs of one to three digits separated by dots
C19_IsIPv4(h) ==
    \E i, j, k \in 1..Len(h) :
       /\ 1 < i /\ i <= 4 /\ i + 1 < j /\ j <= i + 4 /\ j + 1 < k /\ k <= j + 4
       /\ k < Len(h) /\ Len(h) <= k + 3
       /\ \A n \in 1..Len(h) : IF n \in {i, j, k} THEN h[n] = "." ELSE h[n] \in Digits

\* C19: the host extract_domain_from_url takes from a URL has userinfo and port
\* removed, so a text whose only link has an IPv4 literal as its host, such as
\* http://user@192.168.1.1:8080/x, scores 5 in suspicious_url_detection.
C19_UserinfoAndPortRemoved ==
    (op = "suspicious_url_detection" /\ Len(ret.urls) = 1 /\ C19_IsIPv4(HostOf(ret.urls[1]))) =>
        /\ ret.hosts[1] = HostOf(ret.urls[1])
        /\ ret.score = 5

\* The list the last add call was about
C20_Target ==
    CASE op = "add_whitelisted_domains" -> CONFIG.WHITELISTED_DOMAINS
      [] op = "add_known_brand_names" -> CONFIG.KNOWN_BRAND_NAMES
      [] op = "add_suspicious_keywords" -> CONFIG.SUSPICIOUS_KEYWORDS
      [] OTHER -> <<>>

\* No entry twice; every entry behind the first n is non-empty, without capitals
\* and without blanks at its ends
C20_Clean(list, n) ==
    /\ \A i, j \in 1..Len(list) : list[i] = list[j] => i = j
    /\ \A i \in (n + 1)..Len(list) :
          /\ list[i] # <<>>
          /\ \A c \in 1..Len(list[i]) : list[i][c] \notin {UpperLetters[u] : u \in 1..26}
          /\ list[i][1] \notin Whitespace
          /\ list[i][Len(list[i])] \notin Whitespace

\* C20: after any sequence of add_whitelisted_domains, add_known_brand_names
\* and add_suspicious_keywords calls each list is free of duplicates and every
\* added entry is lowercase, stripped and non-empty; a call returns the number
\* of entries by which its list grew, keeps the entries it found in their
\* order, and the same call repeated returns 0 and changes nothing.
C20_AddKeepsListsClean ==
    /\ C20_Clean(CONFIG.WHITELISTED_DOMAINS, Len(PD_WHITELISTED_DOMAINS))
    /\ C20_Clean(CONFIG.KNOWN_BRAND_NAMES, Len(PD_KNOWN_BRAND_NAMES))
    /\ C20_Clean(CONFIG.SUSPICIOUS_KEYWORDS, Len(PD_SUSPICIOUS_KEYWORDS))
    /\ op \in {"add_whitelisted_domains", "add_known_brand_names", "add_suspicious_keywords"} =>
          /\ Len(C20_Target) = Len(ret.before) + ret.added
          /\ \A i \in 1..Len(ret.before) : C20_Target[i] = ret.before[i]
          /\ ret.same => (ret.added = 0 /\ C20_Target = ret.before)

\* A call with capitals, blanks, None and a repeated entry among its values has
\* been made a second time, on a list that earlier calls had extended
C20_Witness ==
    /\ op = "add_known_brand_names"
    /\ ret.same
    /\ Len(ret.values) = 5
    /\ Len(CONFIG.KNOWN_BRAND_NAMES) = Len(PD_KNOWN_BRAND_NAMES) + 4
    /\ Len(CONFIG.WHITELISTED_DOMAINS) > Len(PD_WHITELISTED_DOMAINS)

\* C21: when a domain d has been added through the settings and the next thing
\* the user does is analyze an email whose sender is at d, newrules'
\* whitelist check finds the sender whitelisted and the saved file lists d;
\* when d has been removed, the sender is not whitelisted on account of d.
C21_SettingsReachClassifier ==
    [][/\ (op = "add domain" /\ op' = "analyze" /\ Lower(AfterLastAt(ret'.sender)) = ret.arg[1])
          => (ret'.is_whitelisted /\ ret.arg[1] \in Elems(Get(file.cfg, "legit_domains")))
       /\ (op = "remove domains" /\ op' = "analyze" /\ ret.arg # <<>>
           /\ Lower(AfterLastAt(ret'.sender)) = ret.arg[1]
           /\ \A i \in 1..Len(AppList("legit_domains")) :
                 ~EndsWith(ret.arg[1], AppList("legit_domains")[i]))
          => (~ret'.is_whitelisted /\ ret.arg[1] \notin Elems(Get(file.cfg, "legit_domains")))]_vars

C22_Lists(C) ==
    [k \in {"legit_domains", "keywords", "safe_terms"} |-> Strings(DictGet(C, k, PyList(<<>>)))]

\* C22: right after config.reset_to_defaults() the lists and thresholds of
\* CONFIG, both of the dict config.CONFIG names and of the dict newrules
\* reads, are those of DEFAULT_CONFIGURATION, config.json holds the defaults,
\* and save_rules_to_config() would write the defaults again.
C22_ResetRestoresConfig ==
    op = "reset_to_defaults" =>
       /\ file = persist(ConfigDefaults)
       /\ \A k \in {"legit_domains", "keywords", "safe_terms"} :
             /\ C22_Lists(CONFIG.newrules)[k] = ConfigDefaults[k]
             /\ C22_Lists(CONFIG.config)[k] = ConfigDefaults[k]
       /\ DictGet(CONFIG.config, "thresholds", EmptyDict) = ConfigDefaults.thresholds
       /\ \A k \in {"legit_domains", "keywords", "safe_terms"} :
             config_save_rules_to_config(CONFIG.config).cfg[k] = SortedList(ConfigDefaults[k])

C23_Entry(x) ==
    /\ x # <<>>
    /\ x = Lower(x)
    /\ x = Strip(x)

\* C23: after any sequence of loads of files whose entries are strings, of
\* settings additions and removals, saves and resets, every entry of
\* CONFIG["legit_domains"], CONFIG["keywords"] and CONFIG["safe_terms"] is
\* lowercase, without surrounding whitespace and non-empty.
C23_ConfigEntriesClean ==
    \A k \in {"legit_domains", "keywords", "safe_terms"} :
       /\ \A i \in 1..Len(AppList(k)) : C23_Entry(AppList(k)[i])
       /\ \A x \in Elems(Strings(DictGet(CONFIG.newrules, k, PyList(<<>>)))) : C23_Entry(x)

\* C24: after any sequence of loads of files whose entries are strings, of
\* apply_cfg, saves and resets of rules.py, every member of LEGIT_DOMAINS and
\* of SUS_KEYWORDS is lowercase, without surrounding whitespace and non-empty.
C24_SetsClean ==
    \A x \in LEGIT_DOMAINS \cup SUS_KEYWORDS :
       /\ x # <<>>
       /\ x = Lower(x)
       /\ x = Strip(x)

\* C24 witness: the sets as load_config_to_rules leaves them for a config.json
\* with capitalised, padded, blank and empty entries
C24_Witness ==
    /\ file = MessyFile
    /\ LEGIT_DOMAINS = {D_paypal}
    /\ SUS_KEYWORDS = {K_urgent, K_verify}

\* C25: keyword_position_score gives every configured keyword that occurs
\* anywhere in the lowercased body a positive kw_score, also when the
\* occurrence lies across the end of the first 200 characters.
C25_BodyKeywordCounts ==
    op = "keyword_position_score" =>
       \A i \in 1..Len(CONFIG.SUSPICIOUS_KEYWORDS) :
          Contains(Lower(body), CONFIG.SUSPICIOUS_KEYWORDS[i]) => ret.per[i] > 0

C26_Once(present, weight) == IF present THEN weight ELSE 0

\* C26: keyword_position_score counts a keyword once per location: its
\* kw_score is 3 when the subject holds it, plus 2 when the first 200
\* characters of the body hold it, plus 1 when the rest of the body holds it,
\* however often it occurs there.
C26_OncePerLocation ==
    op = "keyword_position_score" =>
       \A i \in 1..Len(CONFIG.SUSPICIOUS_KEYWORDS) :
          ret.per[i] = C26_Once(Contains(Lower(subject), CONFIG.SUSPICIOUS_KEYWORDS[i]), 3)
                       + C26_Once(Contains(Prefix(Lower(body), 200), CONFIG.SUSPICIOUS_KEYWORDS[i]), 2)
                       + C26_Once(Contains(Suffix(Lower(body), Min2(200, Len(body))), CONFIG.SUSPICIOUS_KEYWORDS[i]), 1)

\* C27: keyword_position_score and suspicious_url_detection return a score
\* from 0 to 12, and the details they return hold the note "Capped keyword
\* score at 12 to balance scoring." (for URLs "Capped URL score ...") exactly
\* when the sum of the loop was above 12.
C27_CapIsNoted ==
    /\ op = "keyword_position_score" =>
          /\ ret.score \in 0..12
          /\ Contains(ret.details, KeywordCapNote) <=> ret.uncapped > 12
    /\ op = "suspicious_url_detection" =>
          /\ ret.score \in 0..12
          /\ Contains(ret.details, UrlCapNote) <=> ret.uncapped > 12

\* C27 witness: five keywords in the subject gave 15, returned as 12 with the note
C27_Witness ==
    /\ op = "keyword_position_score"
    /\ ret.uncapped = 15
    /\ ret.score = 12
    /\ Contains(ret.details, KeywordCapNote)
    /\ body = <<>>

\* The strings one insertion, deletion or substitution of a character of A
\* away from s, none longer than n
C28_OneEdit(s, A, n) ==
    {SubSeq(s, 1, i - 1) \o SubSeq(s, i + 1, Len(s)) : i \in 1..Len(s)}
    \cup {[s EXCEPT ![i] = ch] : i \in 1..Len(s), ch \in A}
    \cup (IF Len(s) < n
          THEN {SubSeq(s, 1, i) \o <<ch>> \o SubSeq(s, i + 1, Len(s)) : i \in 0..Len(s), ch \in A}
          ELSE {})

\* The least number of edits that lead from a string of the set reached to b,
\* k edits having been made already
RECURSIVE C28_EditsFrom(_, _, _, _, _)
C28_EditsFrom(reached, b, A, n, k) ==
    IF b \in reached THEN k
    ELSE C28_EditsFrom(reached \cup UNION {C28_OneEdit(s, A, n) : s \in reached}, b, A, n, k + 1)

\* Minimum number of single-character edits turning a into b; a shortest
\* sequence of edits needs no string longer than the longer of a and b
C28_MinEdits(a, b) ==
    C28_EditsFrom({a}, b, EditAlphabet, IF Len(a) > Len(b) THEN Len(a) ELSE Len(b), 0)

\* C28: rules.levenshtein_distance, utils.levenshtein_distance and the inline
\* dynamic program of newrules.edit_distance_check each return the minimum
\* number of single-character insertions, deletions and substitutions that
\* turn a into b, upper and lower case being different characters.
C28_MinimumEdits ==
    op \in {"rules.levenshtein_distance", "utils.levenshtein_distance", "newrules inline distance"} =>
       ret.distance = C28_MinEdits(sender, subject)

\* C28 witness: utils.levenshtein_distance swapped its arguments and found two
\* edits between strings that differ in case only after a deletion
C28_Witness ==
    /\ op = "utils.levenshtein_distance"
    /\ sender = <<"a", "a", "A">>
    /\ subject = <<"A", "a">>
    /\ ret.distance = 2

\* C29: the total of the score breakdown the Analyze tab shows (whitelist,
\* keyword and edit-distance contributions) equals the Suspicion Score that
\* classify_email returned for the same email.
C29_BreakdownMatchesScore ==
    (op = "analyze" /\ ~ret.raised) => ret.total = ret.score

C30_Key(o) ==
    IF o = "remove domains" THEN "legit_domains"
    ELSE IF o = "remove keywords" THEN "keywords" ELSE "safe_terms"

\* CONFIG of newrules with every copy of the keyword x taken out
C30_Without(x) ==
    PyDict([CONFIG.newrules.v EXCEPT
               !["keywords"] = StrList(SelectSeq(Strings(CONFIG.newrules.v["keywords"]),
                                                 LAMBDA k : k # x))])

\* C30: when the settings remove an entry x of the legit domains, keywords or
\* safe terms, x is afterwards neither in the CONFIG list nor in the saved
\* file, however often x had been added before; and an email analyzed right
\* after the removal of a keyword scores as it does without that keyword.
C30_RemovedIsGone ==
    [][/\ (op' \in {"remove domains", "remove keywords", "remove safe terms"} /\ ret'.arg # <<>>)
          => /\ ret'.arg[1] \notin Elems(Strings(CONFIG'.config.v[C30_Key(op')]))
             /\ ret'.arg[1] \notin Elems(file'.cfg[C30_Key(op')])
       /\ (op = "remove keywords" /\ ret.arg # <<>> /\ op' = "analyze")
          => ret'.score = nr_classify_email(C30_Without(ret.arg[1]), PyStr(ret'.sender),
                                            PyStr(ret'.subject), PyStr(ret'.body)).score]_vars

====
